---- MODULE Spec2Model ----
(***************************************************************************)
(* Answer evaluation and scoring engine of quanta_glia:                    *)
(*   scripts/app/evaluators.py  run_evaluation_point                       *)
(*   scripts/app/scoring.py     evaluate_answer                            *)
(* One call of evaluate_answer is a state machine: Start (the empty-rubric *)
(* check and the locals), EvaluatePoint (one iteration of the loop over    *)
(* the rubric) and Finish (the final score and the category scores).       *)
(***************************************************************************)
EXTENDS Integers, Sequences, FiniteSets, TLC

\* ------------------------------------------------------------------------
\* Bounds of the model
\* ------------------------------------------------------------------------

\* Longest rubric (list of evaluation points) handed to evaluate_answer.
MaxPoints == 3

\* Longest list of answers, and of rubrics, handed to compare_answers.
MaxAnswers == 3

\* ------------------------------------------------------------------------
\* Python values
\* ------------------------------------------------------------------------

\* None, as the value of an optional string-valued key (id, depends_on, type).
None == "None"

\* Values found under "params": tagged with their Python type.
PyNone == [ty |-> "NoneType"]
PyInt(n) == [ty |-> "int", val |-> n]
PyStr(s) == [ty |-> "str", val |-> s]
PyList(l) == [ty |-> "list", val |-> l]
PyDict(d) == [ty |-> "dict", val |-> d]

\* The empty dict {} and the empty list [].
EmptyDict == PyDict(<<>>)

\* dict.get(key, default)
Get(d, key, default) == IF key \in DOMAIN d THEN d[key] ELSE default

\* Truthiness of an optional string: None and "" are falsy.
Truthy(v) == v # None /\ v # ""

\* ------------------------------------------------------------------------
\* Text: a str that is searched or split is a sequence of characters
\* ------------------------------------------------------------------------

UpperLetters == <<"A","B","C","D","E","F","G","H","I","J","K","L","M",
                  "N","O","P","Q","R","S","T","U","V","W","X","Y","Z">>
LowerLetters == <<"a","b","c","d","e","f","g","h","i","j","k","l","m",
                  "n","o","p","q","r","s","t","u","v","w","x","y","z">>

\* str.lower() on one character
LowerChar(c) ==
    IF \E n \in DOMAIN UpperLetters : UpperLetters[n] = c
    THEN LowerLetters[CHOOSE n \in DOMAIN UpperLetters : UpperLetters[n] = c]
    ELSE c

\* str.lower()
Lower(s) == [n \in 1..Len(s) |-> LowerChar(s[n])]

\* needle in hay (substring containment)
Contains(needle, hay) ==
    \E n \in 0..(Len(hay) - Len(needle)) :
        SubSeq(hay, n + 1, n + Len(needle)) = needle

\* Characters str.split() treats as separators.
Whitespace == {" ", "\n", "\t", "\r"}

\* Mutant of the word count: len(answer.split(" ")).
WordCountBySpace(s) == Cardinality({n \in 1..Len(s) : s[n] = " "}) + 1

\* len(answer.split()): the number of maximal runs of non-whitespace.
WordCount(s) ==
    Cardinality({n \in 1..Len(s) :
        /\ s[n] \notin Whitespace
        /\ (n = 1 \/ s[n - 1] \in Whitespace)})

\* The characters of a str joined into one string, as an f-string prints it.
RECURSIVE Join(_)
Join(s) == IF s = <<>> THEN "" ELSE s[1] \o Join(Tail(s))

\* repr() of a list of str, as an f-string prints it: ['a', 'b']
RECURSIVE ReprItems(_)
ReprItems(l) ==
    IF l = <<>> THEN ""
    ELSE "'" \o Join(l[1].val) \o "'"
         \o (IF Len(l) > 1 THEN ", " ELSE "") \o ReprItems(Tail(l))
ReprList(l) == "[" \o ReprItems(l) \o "]"

\* str() of a params value inside an f-string.
Fmt(v) ==
    CASE v.ty = "int" -> ToString(v.val)
      [] v.ty = "str" -> Join(v.val)
      [] v.ty = "NoneType" -> "None"
      [] OTHER -> "?"

\* ------------------------------------------------------------------------
\* Regular expressions (module re), for the patterns the rubrics of the model
\* use: literal characters, backslash escapes, \d, the dot, and * and + after
\* one of these. Groups and sets do not occur, so an unescaped ( ) or [ is
\* always unbalanced.
\* ------------------------------------------------------------------------

Digits == {"0", "1", "2", "3", "4", "5", "6", "7", "8", "9"}
Repeats == {"*", "+"}

\* re.compile raises re.error: the pattern ends in a lone backslash, repeats
\* nothing, or opens or closes a group or a set that has no counterpart.
RECURSIVE PatternInvalid(_, _)
PatternInvalid(pat, repeatable) ==
    IF pat = <<>> THEN FALSE
    ELSE IF pat[1] = "\\"
    THEN Len(pat) < 2 \/ PatternInvalid(SubSeq(pat, 3, Len(pat)), TRUE)
    ELSE IF pat[1] \in Repeats
    THEN ~repeatable \/ PatternInvalid(Tail(pat), FALSE)
    ELSE IF pat[1] \in {"(", ")", "["} THEN TRUE
    ELSE PatternInvalid(Tail(pat), TRUE)

\* The pattern as a sequence of atoms, each with its repeat ("" for none).
RECURSIVE Atoms(_)
Atoms(pat) ==
    IF pat = <<>> THEN <<>>
    ELSE LET width == IF pat[1] = "\\" THEN 2 ELSE 1
             kind == IF pat[1] = "\\"
                     THEN (IF pat[2] = "d" THEN "digit" ELSE "literal")
                     ELSE IF pat[1] = "." THEN "any" ELSE "literal"
             rest == SubSeq(pat, width + 1, Len(pat))
             rep == IF rest # <<>> /\ rest[1] \in Repeats THEN rest[1] ELSE ""
         IN  <<[kind |-> kind, ch |-> pat[width], rep |-> rep]>>
                 \o Atoms(IF rep = "" THEN rest ELSE Tail(rest))

\* Whether one atom matches one character; the dot matches a newline only with DOTALL.
AtomFits(atom, c, dotall) ==
    CASE atom.kind = "literal" -> c = atom.ch
      [] atom.kind = "digit" -> c \in Digits
      [] OTHER -> dotall \/ c # "\n"

\* The backtracking match of atoms k.. against s from offset pos: the offset where
\* the match ends, or -1. A repeat is greedy: it takes one more character first.
RECURSIVE MatchEnd(_, _, _, _, _)
RECURSIVE RepeatEnd(_, _, _, _, _)
MatchEnd(atoms, k, s, pos, dotall) ==
    IF k > Len(atoms) THEN pos
    ELSE LET fits == pos < Len(s) /\ AtomFits(atoms[k], s[pos + 1], dotall)
         IN  CASE atoms[k].rep = "*" -> RepeatEnd(atoms, k, s, pos, dotall)
               [] atoms[k].rep = "+" ->
                    IF fits THEN RepeatEnd(atoms, k, s, pos + 1, dotall) ELSE -1
               [] OTHER ->
                    IF fits THEN MatchEnd(atoms, k + 1, s, pos + 1, dotall) ELSE -1
RepeatEnd(atoms, k, s, pos, dotall) ==
    LET fits == pos < Len(s) /\ AtomFits(atoms[k], s[pos + 1], dotall)
        more == IF fits THEN RepeatEnd(atoms, k, s, pos + 1, dotall) ELSE -1
    IN  IF more >= 0 THEN more ELSE MatchEnd(atoms, k + 1, s, pos, dotall)

\* re.search(pattern, s, flags): the first offset a match starts at, or -1.
SearchStart(pat, s, dotall) ==
    LET starts == {pos \in 0..Len(s) : MatchEnd(Atoms(pat), 1, s, pos, dotall) >= 0}
    IN  IF starts = {} THEN -1
        ELSE CHOOSE pos \in starts : \A q \in starts : pos <= q

\* match.group(0) of that search.
SearchGroup(pat, s, dotall) ==
    LET start == SearchStart(pat, s, dotall)
    IN  SubSeq(s, start + 1, MatchEnd(Atoms(pat), 1, s, start, dotall))

\* re.findall(pattern, s): the non-overlapping matches from left to right.
RECURSIVE FindAllFrom(_, _, _)
FindAllFrom(pat, s, pos) ==
    IF pos > Len(s) THEN <<>>
    ELSE LET end == MatchEnd(Atoms(pat), 1, s, pos, FALSE)
         IN  IF end < 0 THEN FindAllFrom(pat, s, pos + 1)
             ELSE <<PyStr(SubSeq(s, pos + 1, end))>>
                      \o FindAllFrom(pat, s, IF end = pos THEN pos + 1 ELSE end)

\* Mutant of findall: only the first match, as re.search would give.
FindAllFirstOnly(pat, s) ==
    IF SearchStart(pat, s, FALSE) < 0 THEN <<>>
    ELSE <<PyStr(SearchGroup(pat, s, FALSE))>>

FindAll(pat, s) == FindAllFrom(pat, s, 0)

\* What re.search / re.findall raise for the value given as pattern, if anything.
PatternFault(pattern) ==
    IF pattern.ty # "str" THEN "TypeError"
    ELSE IF PatternInvalid(pattern.val, FALSE) THEN "re.error"
    ELSE None

\* `not v` for a params value.
Falsy(v) ==
    \/ v.ty = "NoneType"
    \/ v.ty \in {"int", "float"} /\ v.val = 0
    \/ v.ty \in {"str", "list", "dict"} /\ v.val = <<>>

\* ------------------------------------------------------------------------
\* evaluators.py: run_evaluation_point
\* ------------------------------------------------------------------------

\* The tuple (ok, note, evidence) a validator branch builds.
Result(ok, note, evidence) ==
    [raised |-> FALSE, exc |-> None, ok |-> ok, note |-> note, evidence |-> evidence]

\* An exception leaving run_evaluation_point: the try has a finally and no except.
Raise(exc) == [raised |-> TRUE, exc |-> exc]

\* What p.get(key, default) does for the value p of "params": only a dict has get.
IsDict(p) == p.ty = "dict"

\* What iterating `keywords` and calling k.lower() on each element raises, if anything.
\* A list or a str is iterable (a str yields its characters); every element must be a str.
KeywordsFault(keywords) ==
    CASE keywords.ty = "list" ->
           IF \E n \in DOMAIN keywords.val : keywords.val[n].ty # "str"
           THEN "AttributeError" ELSE None
      [] keywords.ty = "str" -> None
      [] OTHER -> "TypeError"

\* The elements `for k in keywords` yields.
KeywordItems(keywords) ==
    IF keywords.ty = "str"
    THEN [n \in 1..Len(keywords.val) |-> PyStr(<<keywords.val[n]>>)]
    ELSE keywords.val

\* Mutant of the keyword search: the answer is not lowered.
FoundKeywordsCaseSensitive(answer, keywords) ==
    SelectSeq(KeywordItems(keywords),
              LAMBDA k : Contains(Lower(k.val), answer))

\* [k for k in keywords if k.lower() in answer.lower()]
FoundKeywords(answer, keywords) ==
    SelectSeq(KeywordItems(keywords),
              LAMBDA k : Contains(Lower(k.val), Lower(answer)))

\* type == "keyword"
KeywordCheck(answer, p) ==
    IF ~IsDict(p) THEN Raise("AttributeError")
    ELSE LET keywords == Get(p.val, "keywords", PyList(<<>>))
             min_count == Get(p.val, "min_count", PyInt(1))
         IN  IF KeywordsFault(keywords) # None THEN Raise(KeywordsFault(keywords))
             ELSE LET found_keywords == FoundKeywords(answer, keywords)
                      found_count == Len(found_keywords)
                  IN  IF min_count.ty # "int" THEN Raise("TypeError")
                      ELSE Result(found_count >= min_count.val,
                                  "Found " \o ToString(found_count) \o "/"
                                      \o Fmt(min_count) \o " required keywords.",
                                  IF found_keywords # <<>>
                                  THEN PyStr("Found: " \o ReprList(found_keywords))
                                  ELSE PyNone)

\* type == "length"
LengthCheck(answer, p) ==
    LET words == WordCount(answer)
    IN  IF ~IsDict(p) THEN Raise("AttributeError")
        ELSE LET min_len == Get(p.val, "min", PyNone)
                 max_len == Get(p.val, "max", PyNone)
             IN  IF min_len.ty \notin {"NoneType", "int"} THEN Raise("TypeError")
                 ELSE IF min_len.ty = "int" /\ words < min_len.val
                 THEN Result(FALSE,
                             "Answer is too short (" \o ToString(words)
                                 \o " words, min " \o Fmt(min_len) \o ").",
                             PyInt(words))
                 ELSE IF max_len.ty \notin {"NoneType", "int"} THEN Raise("TypeError")
                 ELSE IF max_len.ty = "int" /\ words > max_len.val
                 THEN Result(FALSE,
                             "Answer is too long (" \o ToString(words)
                                 \o " words, max " \o Fmt(max_len) \o ").",
                             PyInt(words))
                 ELSE Result(TRUE,
                             "Length is OK (" \o ToString(words) \o " words).",
                             PyInt(words))

\* Mutant of the regex check: the search without re.DOTALL.
RegexCheckNoDotAll(answer, p) ==
    IF ~IsDict(p) THEN Raise("AttributeError")
    ELSE LET pattern == Get(p.val, "pattern", PyNone)
         IN  IF Falsy(pattern)
             THEN Result(FALSE, "Regex pattern is missing in params.", PyNone)
             ELSE IF PatternFault(pattern) # None THEN Raise(PatternFault(pattern))
             ELSE LET ok == SearchStart(pattern.val, answer, FALSE) >= 0
                  IN  Result(ok,
                             "Pattern '" \o Join(pattern.val) \o "' "
                                 \o (IF ok THEN "found" ELSE "not found") \o ".",
                             IF ok THEN PyStr(SearchGroup(pattern.val, answer, FALSE))
                             ELSE PyNone)

\* type == "regex"
RegexCheck(answer, p) ==
    IF ~IsDict(p) THEN Raise("AttributeError")
    ELSE LET pattern == Get(p.val, "pattern", PyNone)
         IN  IF Falsy(pattern)
             THEN Result(FALSE, "Regex pattern is missing in params.", PyNone)
             ELSE IF PatternFault(pattern) # None THEN Raise(PatternFault(pattern))
             ELSE LET ok == SearchStart(pattern.val, answer, TRUE) >= 0
                  IN  Result(ok,
                             "Pattern '" \o Join(pattern.val) \o "' "
                                 \o (IF ok THEN "found" ELSE "not found") \o ".",
                             IF ok THEN PyStr(SearchGroup(pattern.val, answer, TRUE))
                             ELSE PyNone)

\* The default citation pattern r'\[\d+\]'.
DefaultCitationPattern == PyStr(<<"\\", "[", "\\", "d", "+", "\\", "]">>)

\* type == "citation"
CitationCheck(answer, p) ==
    IF ~IsDict(p) THEN Raise("AttributeError")
    ELSE LET pattern == Get(p.val, "pattern", DefaultCitationPattern)
             min_count == Get(p.val, "min_count", PyInt(1))
         IN  IF PatternFault(pattern) # None THEN Raise(PatternFault(pattern))
             ELSE LET found_citations == FindAll(pattern.val, answer)
                      found_count == Len(found_citations)
                  IN  IF min_count.ty # "int" THEN Raise("TypeError")
                      ELSE Result(found_count >= min_count.val,
                                  "Found " \o ToString(found_count) \o "/"
                                      \o Fmt(min_count) \o " citations.",
                                  IF found_citations # <<>>
                                  THEN PyList(found_citations) ELSE PyNone)

\* Mutant of the negation check: the evidence is the whole forbidden list.
NegationCheckAllAsEvidence(answer, p) ==
    IF ~IsDict(p) THEN Raise("AttributeError")
    ELSE LET forbidden_keywords == Get(p.val, "keywords", PyList(<<>>))
         IN  IF KeywordsFault(forbidden_keywords) # None
             THEN Raise(KeywordsFault(forbidden_keywords))
             ELSE LET found_keywords == FoundKeywords(answer, forbidden_keywords)
                  IN  IF found_keywords = <<>>
                      THEN Result(TRUE, "No forbidden keywords found.", PyNone)
                      ELSE Result(FALSE,
                                  "Found forbidden keywords: " \o ReprList(found_keywords),
                                  PyList(KeywordItems(forbidden_keywords)))

\* type == "negation"
NegationCheck(answer, p) ==
    IF ~IsDict(p) THEN Raise("AttributeError")
    ELSE LET forbidden_keywords == Get(p.val, "keywords", PyList(<<>>))
         IN  IF KeywordsFault(forbidden_keywords) # None
             THEN Raise(KeywordsFault(forbidden_keywords))
             ELSE LET found_keywords == FoundKeywords(answer, forbidden_keywords)
                  IN  IF found_keywords = <<>>
                      THEN Result(TRUE, "No forbidden keywords found.", PyNone)
                      ELSE Result(FALSE,
                                  "Found forbidden keywords: " \o ReprList(found_keywords),
                                  PyList(found_keywords))

\* ------------------------------------------------------------------------
\* difflib, as the diff validator uses it. Sequences are shorter than 200
\* elements, so SequenceMatcher's automatic junk heuristic never applies, and
\* nothing is junk (isjunk is None).
\* ------------------------------------------------------------------------

\* A float given to two decimals, held as its number of hundredths (0.9 is 90).
PyFloat(h) == [ty |-> "float", val |-> h]

\* The length of the common run of a[i:ahi] and b[j:bhi] from their starts.
RECURSIVE RunLength(_, _, _, _, _, _)
RunLength(a, b, i, ahi, j, bhi) ==
    IF i < ahi /\ j < bhi /\ a[i + 1] = b[j + 1]
    THEN 1 + RunLength(a, b, i + 1, ahi, j + 1, bhi)
    ELSE 0

\* SequenceMatcher.find_longest_match(alo, ahi, blo, bhi): the longest common
\* block of a[alo:ahi] and b[blo:bhi]; of the longest ones the one starting
\* earliest in a, and of those the one starting earliest in b. With no common
\* element it is (alo, blo, 0).
FindLongestMatch(a, b, alo, ahi, blo, bhi) ==
    LET runs == {<<i, j, RunLength(a, b, i, ahi, j, bhi)>> :
                    i \in alo..(ahi - 1), j \in blo..(bhi - 1)}
        size == CHOOSE k \in 0..(ahi - alo) :
                    /\ k = 0 \/ \E m \in runs : m[3] = k
                    /\ \A m \in runs : m[3] <= k
        longest == {m \in runs : m[3] = size}
    IN  IF size = 0 THEN <<alo, blo, 0>>
        ELSE CHOOSE m \in longest :
                 \A o \in longest : m[1] < o[1] \/ (m[1] = o[1] /\ m[2] <= o[2])

\* SequenceMatcher.get_matching_blocks(), without the closing sentinel: the
\* longest match, then the same to its left and to its right.
RECURSIVE MatchingBlocks(_, _, _, _, _, _)
MatchingBlocks(a, b, alo, ahi, blo, bhi) ==
    IF alo >= ahi \/ blo >= bhi THEN <<>>
    ELSE LET m == FindLongestMatch(a, b, alo, ahi, blo, bhi)
         IN  IF m[3] = 0 THEN <<>>
             ELSE MatchingBlocks(a, b, alo, m[1], blo, m[2])
                  \o <<m>>
                  \o MatchingBlocks(a, b, m[1] + m[3], ahi, m[2] + m[3], bhi)

\* The number of matched elements: the sum of the block sizes.
RECURSIVE Matches(_)
Matches(blocks) == IF blocks = <<>> THEN 0 ELSE blocks[1][3] + Matches(Tail(blocks))

\* round(100 * num / den) as the format spec .2f rounds: to the nearest
\* hundredth, and a tie to the even one (a tie of two small whole numbers is a
\* multiple of 1/8, which a float holds exactly).
Hundredths(num, den) ==
    LET q == (100 * num) \div den
        r == (100 * num) % den
    IN  IF 2 * r > den \/ (2 * r = den /\ q % 2 = 1) THEN q + 1 ELSE q

\* f"{x:.2f}" for x given in hundredths.
Fmt2f(h) ==
    ToString(h \div 100) \o "." \o ToString((h % 100) \div 10) \o ToString(h % 10)

\* str.splitlines(keepends=True); "\n" is the only line boundary in the texts.
RECURSIVE SplitLines(_)
SplitLines(s) ==
    IF s = <<>> THEN <<>>
    ELSE IF \E n \in 1..Len(s) : s[n] = "\n"
    THEN LET n == CHOOSE k \in 1..Len(s) :
                      s[k] = "\n" /\ \A j \in 1..(k - 1) : s[j] # "\n"
         IN  <<SubSeq(s, 1, n)>> \o SplitLines(SubSeq(s, n + 1, Len(s)))
    ELSE <<s>>

\* The lines a[lo:hi], each under one tag of the diff.
Tagged(tag, a, lo, hi) == [n \in 1..(hi - lo) |-> [tag |-> tag, line |-> a[lo + n]]]

\* The opcodes of the line matcher, line by line: between two matching blocks
\* the lines of a are deleted, then the lines of b inserted.
RECURSIVE DiffEntries(_, _, _, _, _)
DiffEntries(blocks, a, b, i, j) ==
    IF blocks = <<>>
    THEN Tagged("-", a, i, Len(a)) \o Tagged("+", b, j, Len(b))
    ELSE LET m == blocks[1]
         IN  Tagged("-", a, i, m[1]) \o Tagged("+", b, j, m[2])
             \o Tagged(" ", a, m[1], m[1] + m[3])
             \o DiffEntries(Tail(blocks), a, b, m[1] + m[3], m[2] + m[3])

\* get_grouped_opcodes(3): a line is shown if it changed or lies within three
\* lines of a change.
Shown(entries, n) ==
    \E m \in DOMAIN entries :
        entries[m].tag # " " /\ m - n <= 3 /\ n - m <= 3

\* Lines of one side (the tags given) among entries[lo..hi].
SideCount(entries, lo, hi, tags) ==
    Cardinality({n \in lo..hi : entries[n].tag \in tags})

\* _format_range_unified(start, stop), from the lines before and inside the hunk.
FormatRange(before, length) ==
    IF length = 1 THEN ToString(before + 1)
    ELSE IF length = 0 THEN ToString(before) \o ",0"
    ELSE ToString(before + 1) \o "," \o ToString(length)

\* The "@@ -a +b @@" line of the hunk that starts at entry n.
HunkHeader(entries, n) ==
    LET last == CHOOSE e \in n..Len(entries) :
                    /\ \A k \in n..e : Shown(entries, k)
                    /\ (e = Len(entries) \/ ~Shown(entries, e + 1))
    IN  "@@ -" \o FormatRange(SideCount(entries, 1, n - 1, {" ", "-"}),
                              SideCount(entries, n, last, {" ", "-"}))
        \o " +" \o FormatRange(SideCount(entries, 1, n - 1, {" ", "+"}),
                               SideCount(entries, n, last, {" ", "+"}))
        \o " @@\n"

\* The hunks, as the generator yields them from entry n on.
RECURSIVE HunkLines(_, _)
HunkLines(entries, n) ==
    IF n > Len(entries) THEN <<>>
    ELSE IF ~Shown(entries, n) THEN HunkLines(entries, n + 1)
    ELSE (IF n = 1 \/ ~Shown(entries, n - 1)
          THEN <<HunkHeader(entries, n)>> ELSE <<>>)
         \o <<entries[n].tag \o Join(entries[n].line)>>
         \o HunkLines(entries, n + 1)

\* difflib.unified_diff(a, b, fromfile='golden_answer', tofile='llm_answer'):
\* the strings the generator yields; none when the lines are equal.
UnifiedDiff(a, b) ==
    LET entries == DiffEntries(MatchingBlocks(a, b, 0, Len(a), 0, Len(b)), a, b, 0, 0)
    IN  IF \A n \in DOMAIN entries : entries[n].tag = " " THEN <<>>
        ELSE <<"--- golden_answer\n", "+++ llm_answer\n">> \o HunkLines(entries, 1)

\* Mutant of the default threshold: 0.5.
DefaultThresholdHalf == PyFloat(50)

\* The default threshold 0.9.
DefaultThreshold == PyFloat(90)

\* What SequenceMatcher(None, answer, golden_answer) raises, if anything: it
\* iterates golden_answer and uses its elements as dict keys.
GoldenFault(golden_answer) ==
    CASE golden_answer.ty = "str" -> None
      [] golden_answer.ty = "list" ->
           IF \E n \in DOMAIN golden_answer.val :
                  golden_answer.val[n].ty \in {"list", "dict"}
           THEN "TypeError" ELSE None
      [] OTHER -> "TypeError"

\* The elements of golden_answer as the matcher compares them with the
\* characters of the answer: only a one-character str equals a character ("" is
\* written for an element that equals none).
GoldenItems(golden_answer) ==
    IF golden_answer.ty = "str" THEN golden_answer.val
    ELSE [n \in DOMAIN golden_answer.val |->
             LET e == golden_answer.val[n]
             IN  IF e.ty = "str" /\ Len(e.val) = 1 THEN e.val[1] ELSE ""]

\* type == "diff"
DiffCheck(answer, p) ==
    IF ~IsDict(p) THEN Raise("AttributeError")
    ELSE LET golden_answer == Get(p.val, "golden_answer", PyNone)
         IN  IF Falsy(golden_answer)
             THEN Result(FALSE, "Golden answer is missing in params.", PyNone)
             ELSE IF GoldenFault(golden_answer) # None
             THEN Raise(GoldenFault(golden_answer))
             ELSE LET threshold == Get(p.val, "threshold", DefaultThreshold)
                      b == GoldenItems(golden_answer)
                      matches == Matches(MatchingBlocks(answer, b, 0, Len(answer),
                                                        0, Len(b)))
                      length == Len(answer) + Len(b)
                      \* matcher.ratio(): 2.0 * matches / length, in hundredths
                      ratio == Fmt2f(Hundredths(2 * matches, length))
                  IN  IF threshold.ty \notin {"int", "float"} THEN Raise("TypeError")
                      ELSE LET limit == IF threshold.ty = "int"
                                        THEN 100 * threshold.val ELSE threshold.val
                           IN  IF 200 * matches >= limit * length
                               THEN Result(TRUE,
                                           "Similarity ratio " \o ratio
                                               \o " meets threshold " \o Fmt2f(limit) \o ".",
                                           PyStr("Ratio: " \o ratio))
                               ELSE IF golden_answer.ty # "str"
                               THEN Raise("AttributeError")
                               ELSE LET diff_lines ==
                                            UnifiedDiff(SplitLines(golden_answer.val),
                                                        SplitLines(answer))
                                    IN  Result(FALSE,
                                               "Similarity ratio " \o ratio
                                                   \o " is below threshold "
                                                   \o Fmt2f(limit) \o ".",
                                               \* any(diff_lines) takes the first line
                                               \* off the generator before the join
                                               IF diff_lines # <<>>
                                               THEN PyStr(Join(Tail(diff_lines)))
                                               ELSE PyStr("Ratio: " \o ratio))

\* Mutant of the placeholders: the unimplemented validator passes.
NotImplementedPasses(validator) ==
    Result(TRUE, validator \o " validator not yet implemented.", PyNone)

\* The placeholder branches (embedding, json_schema, code_test): neither the
\* answer nor params is looked at.
NotImplemented(validator) ==
    Result(FALSE, validator \o " validator not yet implemented.", PyNone)

\* The final else branch: a type that is none of the nine.
UnknownNote(t) == "Unknown validator type: '" \o t \o "'"

\* run_evaluation_point(answer, point), without the duration it appends.
RunEvaluationPoint(answer, point) ==
    LET t == Get(point, "type", None)
        p == Get(point, "params", EmptyDict)
    IN  CASE t = "keyword" -> KeywordCheck(answer, p)
          [] t = "regex" -> RegexCheck(answer, p)
          [] t = "length" -> LengthCheck(answer, p)
          [] t = "citation" -> CitationCheck(answer, p)
          [] t = "negation" -> NegationCheck(answer, p)
          [] t = "diff" -> DiffCheck(answer, p)
          [] t = "embedding" -> NotImplemented("Embedding")
          [] t = "json_schema" -> NotImplemented("JSON schema")
          [] t = "code_test" -> NotImplemented("Code test")
          [] OTHER -> Result(FALSE, UnknownNote(t), PyNone)

\* ------------------------------------------------------------------------
\* scoring.py: evaluate_answer
\* ------------------------------------------------------------------------

\* A duration is a float. (time.perf_counter() - start_time) * 1000 is whatever the
\* clock gave: one value stands for every measured duration. The duration of a
\* skipped point is the literal 0.0.
Measured == [ty |-> "float", clock |-> "perf_counter"]
ZeroDuration == [ty |-> "float", val |-> 0]

\* The exact quotient n / d of two weight sums, in lowest terms.
RECURSIVE Gcd(_, _)
Gcd(a, b) == IF b = 0 THEN a ELSE Gcd(b, a % b)
Quotient(n, d) == [num |-> n \div Gcd(n, d), den |-> d \div Gcd(n, d)]

\* The float 1.0 and the float 0.0 as quotients.
One == Quotient(1, 1)

\* float(point.get("weight", 1.0)); weights are whole numbers in the model.
Weight(point) == Get(point, "weight", 1)

\* point.get("informational", False)
IsInformational(point) == Get(point, "informational", FALSE)

\* point.get("category", "General")
Category(point) == Get(point, "category", "General")

\* Mutants of the dependency check: one that runs a point whose dependency failed,
\* one that runs a point whose dependency was never evaluated.
DependencyCheckIgnoresFailure(point, results) ==
    LET depends_on == Get(point, "depends_on", None)
    IN  IF ~Truthy(depends_on) THEN "run"
        ELSE IF depends_on \notin DOMAIN results THEN "missing"
        ELSE "run"

DependencyCheckIgnoresMissing(point, results) ==
    LET depends_on == Get(point, "depends_on", None)
    IN  IF ~Truthy(depends_on) THEN "run"
        ELSE IF depends_on \notin DOMAIN results THEN "run"
        ELSE IF ~results[depends_on] THEN "failed"
        ELSE "run"

\* Lines 41-51: the dependency check. "run" when the validator is to be called,
\* otherwise the reason it is skipped.
DependencyCheck(point, results) ==
    LET depends_on == Get(point, "depends_on", None)
    IN  IF ~Truthy(depends_on) THEN "run"
        ELSE IF depends_on \notin DOMAIN results THEN "missing"
        ELSE IF ~results[depends_on] THEN "failed"
        ELSE "run"

\* The note of a skipped point (lines 48 and 51).
SkipNote(point, verdict) ==
    LET depends_on == Get(point, "depends_on", None)
    IN  IF verdict = "missing"
        THEN "Skipped: Dependency '" \o depends_on \o "' not found or has not run yet."
        ELSE "Skipped: Dependency '" \o depends_on \o "' failed."

\* Mutant of the outcome of one point: the validator is called for a skipped
\* point too, and what it answers is dropped.
PointOutcomeCallsAnyway(answer, point, results) ==
    LET verdict == DependencyCheck(point, results)
    IN  IF verdict = "run"
        THEN RunEvaluationPoint(answer, point) @@ [duration_ms |-> Measured, ran |-> TRUE]
        ELSE Result(FALSE, SkipNote(point, verdict), PyNone)
                 @@ [duration_ms |-> ZeroDuration, ran |-> TRUE]

\* Lines 53-57: the outcome of one point, (ok, note, evidence, duration), or the
\* exception run_evaluation_point let through.
PointOutcome(answer, point, results) ==
    LET verdict == DependencyCheck(point, results)
    IN  IF verdict = "run"
        THEN RunEvaluationPoint(answer, point) @@ [duration_ms |-> Measured, ran |-> TRUE]
        ELSE Result(FALSE, SkipNote(point, verdict), PyNone)
                 @@ [duration_ms |-> ZeroDuration, ran |-> FALSE]

\* d[key] = d.get(key, 0.0) + weight
AddTo(d, key, weight) ==
    [k \in DOMAIN d \cup {key} |-> IF k = key THEN Get(d, key, 0) + weight ELSE d[k]]

\* Mutant of the record: only a passed point is put on record.
StoreSuccessOnly(d, key, ok) ==
    IF ok THEN [k \in DOMAIN d \cup {key} |-> IF k = key THEN ok ELSE d[k]] ELSE d

\* results_by_id[point_id] = ok
Store(d, key, ok) ==
    [k \in DOMAIN d \cup {key} |-> IF k = key THEN ok ELSE d[k]]

\* Mutant of the details entry: the category as the point has it, None when unset.
DetailEntryRawCategory(point, out) ==
    [point |-> Get(point, "text", "N/A"),
     id |-> Get(point, "id", None),
     category |-> Get(point, "category", None),
     informational |-> IsInformational(point),
     ok |-> out.ok,
     note |-> out.note,
     evidence |-> out.evidence,
     duration_ms |-> out.duration_ms]

\* Lines 71-80: the entry appended to details.
DetailEntry(point, out) ==
    [point |-> Get(point, "text", "N/A"),
     id |-> Get(point, "id", None),
     category |-> Category(point),
     informational |-> IsInformational(point),
     ok |-> out.ok,
     note |-> out.note,
     evidence |-> out.evidence,
     duration_ms |-> out.duration_ms]

\* Lines 26-31: the locals of one call.
InitialLocals ==
    [total_weight |-> 0, passed_weight |-> 0,
     category_totals |-> <<>>, category_passed |-> <<>>,
     details |-> <<>>, results_by_id |-> <<>>]

\* One iteration's effect on the locals with the three decisions of lines 60-65
\* as parameters: whether the point is counted, whether it passed, the weight added.
Fold(loc, point, out, counted, passed, weight) ==
    [total_weight |-> IF counted THEN loc.total_weight + weight ELSE loc.total_weight,
     passed_weight |-> IF passed THEN loc.passed_weight + weight ELSE loc.passed_weight,
     category_totals |-> IF counted
                         THEN AddTo(loc.category_totals, Category(point), weight)
                         ELSE loc.category_totals,
     category_passed |-> IF passed
                         THEN AddTo(loc.category_passed, Category(point), weight)
                         ELSE loc.category_passed,
     details |-> Append(loc.details, DetailEntry(point, out)),
     results_by_id |-> IF Truthy(Get(point, "id", None))
                       THEN Store(loc.results_by_id, Get(point, "id", None), out.ok)
                       ELSE loc.results_by_id]

\* Mutants of the accumulation: the passed weight not guarded by the informational
\* flag; every point counted as weight 1; informational points counted.
AccumulatePassedUnguarded(loc, point, out) ==
    Fold(loc, point, out, ~IsInformational(point), out.ok, Weight(point))

AccumulateUnweighted(loc, point, out) ==
    Fold(loc, point, out, ~IsInformational(point),
         ~IsInformational(point) /\ out.ok, 1)

AccumulateInformational(loc, point, out) ==
    Fold(loc, point, out, TRUE, out.ok, Weight(point))

\* Lines 59-80: what one iteration does to the locals, given the point's outcome.
Accumulate(loc, point, out) ==
    LET counted == ~IsInformational(point)
        weight == Weight(point)
        category == Category(point)
        point_id == Get(point, "id", None)
    IN  [total_weight |-> IF counted THEN loc.total_weight + weight
                          ELSE loc.total_weight,
         passed_weight |-> IF counted /\ out.ok THEN loc.passed_weight + weight
                           ELSE loc.passed_weight,
         category_totals |-> IF counted
                             THEN AddTo(loc.category_totals, category, weight)
                             ELSE loc.category_totals,
         category_passed |-> IF counted /\ out.ok
                             THEN AddTo(loc.category_passed, category, weight)
                             ELSE loc.category_passed,
         details |-> Append(loc.details, DetailEntry(point, out)),
         results_by_id |-> IF Truthy(point_id)
                           THEN Store(loc.results_by_id, point_id, out.ok)
                           ELSE loc.results_by_id]

\* Mutant of the final score: an empty total scores 0.0.
FinalScoreZeroWhenEmpty(passed_weight, total_weight) ==
    IF total_weight > 0 THEN Quotient(passed_weight, total_weight) ELSE Quotient(0, 1)

\* Line 83: the final weighted score.
FinalScore(passed_weight, total_weight) ==
    IF total_weight > 0 THEN Quotient(passed_weight, total_weight) ELSE One

\* Lines 86-89: the dict comprehension divides by every category's total.
CategoryScoresRaise(category_totals) ==
    \E cat \in DOMAIN category_totals : category_totals[cat] = 0

CategoryScores(category_totals, category_passed) ==
    [cat \in DOMAIN category_totals |->
        Quotient(Get(category_passed, cat, 0), category_totals[cat])]

\* The tuple evaluate_answer returns, and an exception leaving it.
Returned(score, category_scores, details) ==
    [raised |-> FALSE, exc |-> None, score |-> score,
     category_scores |-> category_scores, details |-> details]

Raised(exc) == [raised |-> TRUE, exc |-> exc]

\* Lines 82-91 on the locals the loop left.
Finalize(loc) ==
    IF CategoryScoresRaise(loc.category_totals) THEN Raised("ZeroDivisionError")
    ELSE Returned(FinalScore(loc.passed_weight, loc.total_weight),
                  CategoryScores(loc.category_totals, loc.category_passed),
                  loc.details)

\* evaluate_answer(answer, evaluation_points) as a function: the loop from
\* point n on, then the final computation.
RECURSIVE EvaluateFrom(_, _, _, _)
EvaluateFrom(answer, points, n, loc) ==
    IF n > Len(points) THEN Finalize(loc)
    ELSE LET out == PointOutcome(answer, points[n], loc.results_by_id)
         IN  IF out.raised THEN Raised(out.exc)
             ELSE EvaluateFrom(answer, points, n + 1, Accumulate(loc, points[n], out))

EvaluateAnswer(answer, points) ==
    IF points = <<>> THEN Returned(One, <<>>, <<>>)
    ELSE EvaluateFrom(answer, points, 1, InitialLocals)

\* ------------------------------------------------------------------------
\* scoring.py: compare_answers
\* ------------------------------------------------------------------------

\* a < b for two scores.
Less(a, b) == a.num * b.den < b.num * a.den

\* max(scores_only)
Max(scores_only) ==
    scores_only[CHOOSE n \in DOMAIN scores_only :
                    \A m \in DOMAIN scores_only : ~Less(scores_only[n], scores_only[m])]

\* Mutant of list.index: the last position of the value.
IndexOfLast(scores_only, value) ==
    (CHOOSE n \in DOMAIN scores_only :
        /\ scores_only[n] = value
        /\ \A m \in (n + 1)..Len(scores_only) : scores_only[m] # value) - 1

\* scores_only.index(value): the first position of the value, counted from 0.
Index(scores_only, value) ==
    (CHOOSE n \in DOMAIN scores_only :
        /\ scores_only[n] = value
        /\ \A m \in 1..(n - 1) : scores_only[m] # value) - 1

\* The tuple compare_answers returns.
CompareReturned(winner_index, reports) ==
    [raised |-> FALSE, exc |-> None, winner_index |-> winner_index,
     all_scores |-> reports]

\* Mutant of the early returns: position 0 as the winner of nothing.
NoWinnerFirst == CompareReturned(0, <<>>)

\* Lines 108 and 113: return -1, []
NoWinner == CompareReturned(-1, <<>>)

\* Lines 115-118 on the collected reports.
Decide(reports) ==
    LET scores_only == [n \in DOMAIN reports |-> reports[n].score]
        winner_index == IF scores_only # <<>>
                        THEN Index(scores_only, Max(scores_only)) ELSE -1
    IN  CompareReturned(winner_index, reports)

\* len(list(zip(answers, evaluation_points_list))): zip stops at the shorter one.
ZipLen(a, b) == IF Len(a) <= Len(b) THEN Len(a) ELSE Len(b)

\* ------------------------------------------------------------------------
\* Inputs: answers and rubrics
\* ------------------------------------------------------------------------

\* "no code here": three words, no "def".   "Def f": two words, contains "def".
ComparedAnswers ==
    {<<"n","o"," ","c","o","d","e"," ","h","e","r","e">>,
     <<"D","e","f"," ","f">>}

\* "Case matters, CASE." (test_keyword_validator): "case" twice, in two cases,
\* and "matter" only as a part of "matters".
CaseMatters ==
    <<"C","a","s","e"," ","m","a","t","t","e","r","s",","," ","C","A","S","E",".">>

Answers == ComparedAnswers \cup {CaseMatters}

\* A keyword check for "def" and a length check for at least three words: on each
\* answer one of them passes and the other fails.
KeywordDef ==
    [type |-> "keyword",
     params |-> PyDict([keywords |-> PyList(<<PyStr(<<"d","e","f">>)>>)])]
LengthMin ==
    [type |-> "length", text |-> "at least three words",
     params |-> PyDict([min |-> PyInt(3)])]
Checks == {KeywordDef, LengthMin}

\* Points that differ in weight, category and the informational flag.
ScorePoints ==
    {w @@ c @@ check :
        w \in {<<>>, [weight |-> 0], [weight |-> 2]},
        c \in {<<>>, [category |-> "Format"]},
        check \in Checks}
    \cup {[informational |-> TRUE, category |-> "Metadata"] @@ check : check \in Checks}

\* Points that carry ids and depend on one another: a chain a <- b <- (unnamed),
\* a point that depends on itself, an informational point others depend on, and
\* dependents that are weighted, informational or have params of the wrong shape.
DependencyPoints ==
    {d @@ check :
        d \in {[id |-> "a"],
               [id |-> "b", depends_on |-> "a"],
               [depends_on |-> "b"],
               [id |-> "a", depends_on |-> "a"]},
        check \in Checks}
    \cup {[id |-> "a", informational |-> TRUE] @@ check : check \in Checks}
    \cup {[depends_on |-> "a", weight |-> 2, category |-> "Format"] @@ LengthMin,
          [depends_on |-> "a", informational |-> TRUE] @@ KeywordDef,
          [depends_on |-> "a", type |-> "keyword", params |-> PyNone]}

\* Points whose type is unknown or whose params have the wrong shape.
FaultyPoints ==
    {[type |-> "essay", params |-> EmptyDict],
     [type |-> "keyword", params |-> PyNone],
     [type |-> "keyword", informational |-> TRUE,
      params |-> PyDict([keywords |-> PyList(<<PyInt(1)>>)])],
     [type |-> "length", params |-> PyDict([min |-> PyStr(<<"3">>)])],
     [type |-> "negation", weight |-> 0,
      params |-> PyDict([keywords |-> PyList(<<PyStr(<<"c","o","d","e">>)>>)])],
     [type |-> "code_test", id |-> "a", params |-> PyDict([exit_code |-> PyInt(0)])]}
    \cup Checks

\* Points of the pattern and diff validators: a pattern that does not compile, a
\* pattern one of the answers matches, the default citation pattern, and a diff
\* against a golden answer that one of the answers equals.
MatcherPoints ==
    {[type |-> "regex", params |-> PyDict([pattern |-> PyStr(<<"(">>)])],
     [type |-> "regex", params |-> PyDict([pattern |-> PyStr(<<"c", ".", "*", "e">>)])],
     [type |-> "citation", params |-> EmptyDict],
     [type |-> "diff",
      params |-> PyDict([golden_answer |-> PyStr(<<"D","e","f"," ","f">>)])]}

\* Keyword and negation points: a keyword that occurs twice with min_count 2, a
\* keyword that is a part of a longer word, keywords in upper and lower case, and
\* negation points with an empty list and with no params.
KeywordPoints ==
    {[type |-> "keyword",
      params |-> PyDict([keywords |-> PyList(<<PyStr(<<"c","a","s","e">>)>>),
                         min_count |-> PyInt(2)])],
     [type |-> "keyword",
      params |-> PyDict([keywords |-> PyList(<<PyStr(<<"m","a","t","t","e","r">>)>>)])],
     [type |-> "keyword",
      params |-> PyDict([keywords |-> PyList(<<PyStr(<<"D","E","F">>),
                                               PyStr(<<"z","z","z">>),
                                               PyStr(<<"c","o","d","e">>),
                                               PyStr(<<"F">>)>>),
                         min_count |-> PyInt(2)])],
     [type |-> "negation",
      params |-> PyDict([keywords |-> PyList(<<PyStr(<<"m","a","t","t","e","r">>),
                                               PyStr(<<"d","e","f">>)>>)])],
     [type |-> "negation", params |-> PyDict([keywords |-> PyList(<<>>)])],
     [type |-> "negation"]}

\* Points of the three placeholder kinds, with params absent, None, a dict and a
\* list, alone and behind a dependency.
PlaceholderPoints ==
    {[type |-> "embedding", params |-> PyNone],
     [type |-> "embedding", id |-> "a",
      params |-> PyDict([reference |-> PyStr(<<"D","e","f"," ","f">>)])],
     [type |-> "json_schema"],
     [type |-> "json_schema", depends_on |-> "a",
      params |-> PyDict([schema |-> PyDict([type |-> PyStr(<<"o","b","j","e","c","t">>)])])],
     [type |-> "code_test", params |-> PyList(<<PyInt(0)>>)]}

SeqsUpTo(S, n) == UNION {[1..k -> S] : k \in 0..n}

Rubrics ==
    SeqsUpTo(ScorePoints, MaxPoints)
    \cup SeqsUpTo(DependencyPoints, MaxPoints)
    \cup SeqsUpTo(FaultyPoints, MaxPoints)
    \cup SeqsUpTo(MatcherPoints, MaxPoints)
    \cup SeqsUpTo(PlaceholderPoints, MaxPoints)
    \cup SeqsUpTo(KeywordPoints, MaxPoints)

\* The rubrics compare_answers is given: the empty one, a point with an id, a
\* point that depends on an id that only a later point of its rubric carries, a
\* rubric with a point of weight 0, and one with a point of each text validator.
CompareRubrics ==
    {<<>>,
     <<[id |-> "a"] @@ KeywordDef>>,
     <<[depends_on |-> "a"] @@ LengthMin, [id |-> "a"] @@ KeywordDef>>,
     <<[weight |-> 0] @@ KeywordDef>>,
     <<KeywordDef,
       [type |-> "regex", params |-> PyDict([pattern |-> PyStr(<<"c", ".", "*", "e">>)])],
       LengthMin,
       [type |-> "citation", params |-> EmptyDict],
       [type |-> "negation",
        params |-> PyDict([keywords |-> PyList(<<PyStr(<<"c","o","d","e">>)>>)])],
       [type |-> "diff",
        params |-> PyDict([golden_answer |-> PyStr(<<"D","e","f"," ","f">>)])]>>}

\* ------------------------------------------------------------------------
\* One call of evaluate_answer(answer, evaluation_points)
\* ------------------------------------------------------------------------

VARIABLES
    answer,             \* the argument answer
    evaluation_points,  \* the argument evaluation_points
    pc,                 \* "call", "loop", "returned" or "raised"
    i,                  \* position of the loop in evaluation_points
    total_weight, passed_weight, category_totals, category_passed,
    details, results_by_id,   \* the locals of lines 26-31
    calls,              \* positions of the points run_evaluation_point was called for
    result,             \* what the call returned or raised
    \* the caller compare_answers, when there is one
    answers,                 \* the argument answers
    evaluation_points_list,  \* the argument evaluation_points_list
    all_scores,              \* the reports collected so far (line 110)
    evaluations,             \* positions of the answers evaluate_answer was called for
    compare_pc,              \* "none", "call", "zip", "returned" or "raised"
    compare_result,          \* what compare_answers returned or raised
    \* pruner.py: run_pruning and what it works on
    args,               \* the argument args: dry_run and strategy
    config_data,        \* what load_config(args.config) gives
    fs,                 \* the file system: knowledge base, archive, log file
    pending,            \* the entries of the knowledge base still to be visited
    prune_pc,           \* "none", "call", "scan", "returned", "exit" or "raised"
    decisions           \* the PruneDecision of each repository and what was done

\* The variables of the caller.
compare_vars == <<answers, evaluation_points_list, all_scores, evaluations,
                  compare_pc, compare_result>>

vars == <<answer, evaluation_points, pc, i, total_weight, passed_weight,
          category_totals, category_passed, details, results_by_id, calls, result,
          answers, evaluation_points_list, all_scores, evaluations,
          compare_pc, compare_result,
          args, config_data, fs, pending, prune_pc, decisions>>

\* The variables of the pruner.
pruner_vars == <<args, config_data, fs, pending, prune_pc, decisions>>

Locals ==
    [total_weight |-> total_weight, passed_weight |-> passed_weight,
     category_totals |-> category_totals, category_passed |-> category_passed,
     details |-> details, results_by_id |-> results_by_id]

SetLocals(loc) ==
    /\ total_weight' = loc.total_weight
    /\ passed_weight' = loc.passed_weight
    /\ category_totals' = loc.category_totals
    /\ category_passed' = loc.category_passed
    /\ details' = loc.details
    /\ results_by_id' = loc.results_by_id

Pending == [pending |-> TRUE]

\* evaluate_answer is called directly: there is no compare_answers around it.
NoCaller ==
    /\ answers = <<>>
    /\ evaluation_points_list = <<>>
    /\ all_scores = <<>>
    /\ evaluations = <<>>
    /\ compare_pc = "none"
    /\ compare_result = Pending

\* The pruner is not running.
NoPruner ==
    /\ args = <<>>
    /\ config_data = <<>>
    /\ fs = <<>>
    /\ pending = {}
    /\ prune_pc = "none"
    /\ decisions = <<>>

Init ==
    /\ answer \in Answers
    /\ evaluation_points \in Rubrics
    /\ pc = "call"
    /\ i = 1
    /\ total_weight = 0
    /\ passed_weight = 0
    /\ category_totals = <<>>
    /\ category_passed = <<>>
    /\ details = <<>>
    /\ results_by_id = <<>>
    /\ calls = <<>>
    /\ result = Pending
    /\ NoCaller
    /\ NoPruner

\* Mutants of the start of a call: results_by_id, or details, is not made anew but
\* is what the call before left.
StartKeepingResults ==
    /\ pc = "call"
    /\ IF evaluation_points = <<>>
       THEN /\ pc' = "returned"
            /\ result' = Returned(One, <<>>, <<>>)
       ELSE /\ pc' = "loop"
            /\ result' = result
    /\ SetLocals([InitialLocals EXCEPT !.results_by_id = results_by_id])
    /\ i' = 1
    /\ UNCHANGED <<answer, evaluation_points, calls>>
    /\ UNCHANGED compare_vars
    /\ UNCHANGED pruner_vars

StartKeepingDetails ==
    /\ pc = "call"
    /\ IF evaluation_points = <<>>
       THEN /\ pc' = "returned"
            /\ result' = Returned(One, <<>>, <<>>)
       ELSE /\ pc' = "loop"
            /\ result' = result
    /\ SetLocals([InitialLocals EXCEPT !.details = details])
    /\ i' = 1
    /\ UNCHANGED <<answer, evaluation_points, calls>>
    /\ UNCHANGED compare_vars
    /\ UNCHANGED pruner_vars

\* Lines 23-31: an empty rubric returns at once; otherwise the locals are set.
Start ==
    /\ pc = "call"
    /\ IF evaluation_points = <<>>
       THEN /\ pc' = "returned"
            /\ result' = Returned(One, <<>>, <<>>)
       ELSE /\ pc' = "loop"
            /\ result' = result
    /\ SetLocals(InitialLocals)
    /\ i' = 1
    /\ UNCHANGED <<answer, evaluation_points, calls>>
    /\ UNCHANGED compare_vars
    /\ UNCHANGED pruner_vars

\* Lines 33-80: one iteration of the loop.
EvaluatePoint ==
    /\ pc = "loop"
    /\ i <= Len(evaluation_points)
    /\ LET point == evaluation_points[i]
           out == PointOutcome(answer, point, results_by_id)
       IN  /\ calls' = IF out.ran THEN Append(calls, i) ELSE calls
           /\ IF out.raised
              THEN /\ pc' = "raised"
                   /\ result' = Raised(out.exc)
                   /\ UNCHANGED <<i, total_weight, passed_weight, category_totals,
                                  category_passed, details, results_by_id>>
              ELSE /\ SetLocals(Accumulate(Locals, point, out))
                   /\ i' = i + 1
                   /\ UNCHANGED <<pc, result>>
    /\ UNCHANGED <<answer, evaluation_points>>
    /\ UNCHANGED compare_vars
    /\ UNCHANGED pruner_vars

\* Lines 82-91: the final score and the category scores.
Finish ==
    /\ pc = "loop"
    /\ i > Len(evaluation_points)
    /\ result' = Finalize(Locals)
    /\ pc' = IF result'.raised THEN "raised" ELSE "returned"
    /\ UNCHANGED <<answer, evaluation_points, i, total_weight, passed_weight,
                   category_totals, category_passed, details, results_by_id, calls>>
    /\ UNCHANGED compare_vars
    /\ UNCHANGED pruner_vars

Next == Start \/ EvaluatePoint \/ Finish

Spec == Init /\ [][Next]_vars

\* ------------------------------------------------------------------------
\* The validators one by one: evaluate_answer called with a rubric of a single
\* point, on answers with digits, brackets, line breaks and no text at all.
\* ------------------------------------------------------------------------

\* "See [1] and [2]." (four words, two citations), "ab\ncd" (two lines), "".
ValidatorAnswers ==
    {<<"S","e","e"," ","[","1","]"," ","a","n","d"," ","[","2","]",".">>,
     <<"a","b","\n","c","d">>,
     <<>>}

\* Regex points: a dot that has to match the line break, a repeated dot, a
\* digit, and a pattern that is absent, None or empty.
RegexPoints ==
    {[type |-> "regex", params |-> PyDict([pattern |-> PyStr(<<"b", ".", "c">>)])],
     [type |-> "regex", params |-> PyDict([pattern |-> PyStr(<<"a", ".", "*", "d">>)])],
     [type |-> "regex", params |-> PyDict([pattern |-> PyStr(<<"\\", "d", "+", "]">>)])],
     [type |-> "regex", params |-> EmptyDict],
     [type |-> "regex"],
     [type |-> "regex", params |-> PyDict([pattern |-> PyNone])],
     [type |-> "regex", params |-> PyDict([pattern |-> PyStr(<<>>)])]}

\* Length points: no bound, either bound, both, bounds of 0, and a minimum above
\* the maximum.
LengthPoints ==
    {[type |-> "length"] @@ b :
        b \in {<<>>,
               [params |-> EmptyDict],
               [params |-> PyDict([min |-> PyInt(2)])],
               [params |-> PyDict([max |-> PyInt(3)])],
               [params |-> PyDict([min |-> PyInt(2), max |-> PyInt(4)])],
               [params |-> PyDict([min |-> PyInt(0), max |-> PyInt(0)])],
               [params |-> PyDict([min |-> PyInt(4), max |-> PyInt(2)])],
               [params |-> PyDict([min |-> PyNone, max |-> PyInt(1)])]}}

\* Citation points: the default pattern with min_count unset, 2, 3 and 0, a
\* single digit, a dot that would have to match the line break, and the empty
\* pattern.
CitationPoints ==
    {[type |-> "citation"] @@ b :
        b \in {<<>>,
               [params |-> EmptyDict],
               [params |-> PyDict([min_count |-> PyInt(2)])],
               [params |-> PyDict([min_count |-> PyInt(3)])],
               [params |-> PyDict([min_count |-> PyInt(0)])],
               [params |-> PyDict([pattern |-> PyStr(<<"\\", "d">>),
                                   min_count |-> PyInt(2)])],
               [params |-> PyDict([pattern |-> PyStr(<<"b", ".", "c">>)])],
               [params |-> PyDict([pattern |-> PyStr(<<>>),
                                   min_count |-> PyInt(6)])]}}

\* Golden answers: one of the answers, the same with its last character
\* changed, the empty text, None, and none at all.
GoldenAnswers ==
    {[golden_answer |-> PyStr(<<"a","b","\n","c","d">>)],
     [golden_answer |-> PyStr(<<"a","b","\n","c","x">>)],
     [golden_answer |-> PyStr(<<>>)],
     [golden_answer |-> PyNone],
     <<>>}

\* Thresholds: unset, 0.8, 0 and 1 (as floats) and 2 (as an int).
Thresholds ==
    {<<>>,
     [threshold |-> PyFloat(80)],
     [threshold |-> PyFloat(0)],
     [threshold |-> PyFloat(100)],
     [threshold |-> PyInt(2)]}

\* Diff points: every golden answer with every threshold.
DiffPoints ==
    {[type |-> "diff", params |-> PyDict(g @@ t)] : g \in GoldenAnswers, t \in Thresholds}
        \cup {[type |-> "diff"]}

ValidatorPoints == RegexPoints \cup LengthPoints \cup CitationPoints \cup DiffPoints

ValidatorInit ==
    /\ answer \in ValidatorAnswers
    /\ evaluation_points \in {<<point>> : point \in ValidatorPoints}
    /\ pc = "call"
    /\ i = 1
    /\ total_weight = 0
    /\ passed_weight = 0
    /\ category_totals = <<>>
    /\ category_passed = <<>>
    /\ details = <<>>
    /\ results_by_id = <<>>
    /\ calls = <<>>
    /\ result = Pending
    /\ NoCaller
    /\ NoPruner

ValidatorSpec == ValidatorInit /\ [][Next]_vars

\* ------------------------------------------------------------------------
\* One call of compare_answers(answers, evaluation_points_list); each call of
\* evaluate_answer it makes runs Start, EvaluatePoint and Finish.
\* ------------------------------------------------------------------------

CompareInit ==
    /\ answers \in SeqsUpTo(ComparedAnswers, MaxAnswers)
    /\ evaluation_points_list \in SeqsUpTo(CompareRubrics, MaxAnswers)
    /\ all_scores = <<>>
    /\ evaluations = <<>>
    /\ compare_pc = "call"
    /\ compare_result = Pending
    /\ answer = <<>>
    /\ evaluation_points = <<>>
    /\ pc = "idle"
    /\ i = 1
    /\ total_weight = 0
    /\ passed_weight = 0
    /\ category_totals = <<>>
    /\ category_passed = <<>>
    /\ details = <<>>
    /\ results_by_id = <<>>
    /\ calls = <<>>
    /\ result = Pending
    /\ NoPruner

\* Lines 107-108: no answers, nothing to do.
CompareStart ==
    /\ compare_pc = "call"
    /\ IF answers = <<>>
       THEN /\ compare_pc' = "returned"
            /\ compare_result' = NoWinner
       ELSE /\ compare_pc' = "zip"
            /\ compare_result' = compare_result
    /\ UNCHANGED <<answers, evaluation_points_list, all_scores, evaluations>>
    /\ UNCHANGED <<answer, evaluation_points, pc, i, total_weight, passed_weight,
                   category_totals, category_passed, details, results_by_id,
                   calls, result>>
    /\ UNCHANGED pruner_vars

\* Line 110: the comprehension calls evaluate_answer for the next pair of zip.
CallEvaluate ==
    /\ compare_pc = "zip"
    /\ pc = "idle"
    /\ Len(all_scores) < ZipLen(answers, evaluation_points_list)
    /\ LET k == Len(all_scores) + 1
       IN  /\ answer' = answers[k]
           /\ evaluation_points' = evaluation_points_list[k]
           /\ evaluations' = Append(evaluations, k)
    /\ pc' = "call"
    /\ calls' = <<>>
    /\ result' = Pending
    /\ UNCHANGED <<i, total_weight, passed_weight, category_totals, category_passed,
                   details, results_by_id>>
    /\ UNCHANGED <<answers, evaluation_points_list, all_scores, compare_pc,
                   compare_result>>
    /\ UNCHANGED pruner_vars

\* Line 110: the report of the call goes into all_scores; an exception that left
\* evaluate_answer leaves compare_answers too.
Collect ==
    /\ compare_pc = "zip"
    /\ pc \in {"returned", "raised"}
    /\ IF result.raised
       THEN /\ compare_pc' = "raised"
            /\ compare_result' = Raised(result.exc)
            /\ all_scores' = all_scores
       ELSE /\ all_scores' = Append(all_scores, result)
            /\ UNCHANGED <<compare_pc, compare_result>>
    /\ pc' = "idle"
    /\ UNCHANGED <<answers, evaluation_points_list, evaluations>>
    /\ UNCHANGED <<answer, evaluation_points, i, total_weight, passed_weight,
                   category_totals, category_passed, details, results_by_id,
                   calls, result>>
    /\ UNCHANGED pruner_vars

\* Lines 112-118: no reports, or the first position of the highest score.
CompareFinish ==
    /\ compare_pc = "zip"
    /\ pc = "idle"
    /\ Len(all_scores) = ZipLen(answers, evaluation_points_list)
    /\ compare_result' = IF all_scores = <<>> THEN NoWinner ELSE Decide(all_scores)
    /\ compare_pc' = "returned"
    /\ UNCHANGED <<answers, evaluation_points_list, all_scores, evaluations>>
    /\ UNCHANGED <<answer, evaluation_points, pc, i, total_weight, passed_weight,
                   category_totals, category_passed, details, results_by_id,
                   calls, result>>
    /\ UNCHANGED pruner_vars

CompareNext ==
    \/ CompareStart \/ CallEvaluate \/ Collect \/ CompareFinish
    \/ Start \/ EvaluatePoint \/ Finish

CompareSpec == CompareInit /\ [][CompareNext]_vars

\* ------------------------------------------------------------------------
\* pruner.py
\* ------------------------------------------------------------------------

\* The most entries a knowledge base holds.
MaxRepos == 2

\* The age beyond which a repository counts as fully aged (line 62).
max_age_for_norm == 365

\* The threshold a decision has when the configuration names none (1.1, in
\* hundredths): no score reaches it.
Unachievable == 110

\* RepoRecord(name, path, last_activity_at): the scores keep their defaults
\* 0.0 (in hundredths).
RepoRecord(name) ==
    [name |-> name, usage_score |-> 0, redundancy_score |-> 0, ethics_risk_score |-> 0]

\* Lines 54-78: calculate_composite_score, in ten-thousandths (the result is
\* rounded to four places); scores and weights are in hundredths.
CalculateCompositeScore(repo, age_days, weights) ==
    LET WeightOf(key) == Get(weights.val, key, PyFloat(0)).val
        aged == IF age_days < max_age_for_norm THEN age_days ELSE max_age_for_norm
    IN  (100 - repo.usage_score) * WeightOf("usage")
        + repo.redundancy_score * WeightOf("redundancy")
        + repo.ethics_risk_score * WeightOf("ethics_risk")
        + Hundredths(aged * WeightOf("age"), max_age_for_norm)

\* Lines 80-90: make_pruning_decision, the decision of the pair it returns; the
\* score is in ten-thousandths, the thresholds in hundredths.
MakePruningDecision(score, thresholds) ==
    LET Threshold(key) == 100 * Get(thresholds.val, key, PyFloat(Unachievable)).val
    IN  IF score >= Threshold("delete") THEN "DELETE"
        ELSE IF score >= Threshold("archive") THEN "ARCHIVE"
        ELSE IF score >= Threshold("review") THEN "REVIEW"
        ELSE "KEEP"

\* The two words get_ethical_verdict looks for in a name.
Critical == <<"c", "r", "i", "t", "i", "c", "a", "l">>
Protected == <<"p", "r", "o", "t", "e", "c", "t", "e", "d">>

\* Mutant of the ethical verdict: only a deletion is looked at.
GetEthicalVerdictDeleteOnly(repo_name, decision) ==
    IF decision = "DELETE"
       /\ (Contains(Critical, repo_name) \/ Contains(Protected, repo_name))
    THEN "DENY" ELSE "ALLOW"

\* Lines 92-102: get_ethical_verdict, the verdict of the pair it returns.
GetEthicalVerdict(repo_name, decision) ==
    IF decision \in {"DELETE", "ARCHIVE"}
       /\ (Contains(Critical, repo_name) \/ Contains(Protected, repo_name))
    THEN "DENY" ELSE "ALLOW"

\* Lines 119-129: the sections of the configuration run_pruning reads.
Weights == Get(config_data, "scoring_weights", EmptyDict)
DecisionThresholds == Get(config_data, "decision_thresholds", EmptyDict)

\* Line 126: the command line, else the configuration, else "conservative".
Strategy ==
    IF args.strategy # None THEN args.strategy
    ELSE Get(config_data, "default_strategy", "conservative")

\* The names of the entries a knowledge base is made of here, as characters.
CriticalProject ==
    <<"c","r","i","t","i","c","a","l","-","p","r","o","j","e","c","t">>
SomeProtectedData ==
    <<"s","o","m","e","-","p","r","o","t","e","c","t","e","d","-","d","a","t","a">>
NormalRepo == <<"n","o","r","m","a","l","-","r","e","p","o">>

\* The entries: repositories a year old, 146 days old (two fifths of a year)
\* and new, two of them with a name the ethical governor protects, and a file.
Entries ==
    {[name |-> CriticalProject, is_dir |-> TRUE, age_days |-> 365],
     [name |-> SomeProtectedData, is_dir |-> TRUE, age_days |-> 146],
     [name |-> NormalRepo, is_dir |-> TRUE, age_days |-> 365],
     [name |-> <<"d","r","a","f","t","s">>, is_dir |-> TRUE, age_days |-> 146],
     [name |-> <<"n","e","w">>, is_dir |-> TRUE, age_days |-> 0],
     [name |-> <<"R","E","A","D","M","E">>, is_dir |-> FALSE, age_days |-> 0]}

\* The file systems run_pruning starts on: the knowledge base is missing
\* (then it has no entries) or a directory of up to MaxRepos entries; the archive path is free, an (empty)
\* directory, a file, or lies in a directory that does not exist; there is
\* no log file yet.
FileSystems ==
    LET StartOn(is_dir, entries, archive) ==
            [knowledge_base |-> is_dir, entries |-> entries,
             archive |-> archive, archived |-> {}, log |-> FALSE]
        Archives == {"free", "dir", "file", "no parent"}
    IN  {StartOn(FALSE, {}, archive) : archive \in Archives}
        \cup {StartOn(TRUE, entries, archive) :
                  entries \in {e \in SUBSET Entries : Cardinality(e) <= MaxRepos},
                  archive \in Archives}

\* The scoring weights: none, usage and age at 0.5 each, and the empty list
\* that load_config makes of a nested map.
WeightSections ==
    {<<>>,
     [scoring_weights |-> PyDict([usage |-> PyFloat(50), age |-> PyFloat(50)])],
     [scoring_weights |-> PyList(<<>>)]}

\* The decision thresholds: none, the three of the unit test with archive at
\* 0.7 and delete at 0.95, archive alone, delete alone and low, and the empty
\* list again.
ThresholdSections ==
    {<<>>,
     [decision_thresholds |-> PyDict([delete |-> PyFloat(95), archive |-> PyFloat(70),
                                      review |-> PyFloat(50)])],
     [decision_thresholds |-> PyDict([archive |-> PyFloat(70)])],
     [decision_thresholds |-> PyDict([delete |-> PyFloat(50)])],
     [decision_thresholds |-> PyList(<<>>)]}

\* What load_config gives: None for a missing file, else the pruning section.
\* A section is a mapping, as run_pruning reads it with get, or the list that
\* the parser of utils.py makes of a nested map.
Configs ==
    {PyNone} \cup
    {w @@ t @@ d : w \in WeightSections, t \in ThresholdSections,
                   d \in {<<>>, [default_strategy |-> "aggressive"]}}

\* The arguments of the command line that run_pruning reads.
Arguments ==
    [dry_run : BOOLEAN, strategy : {None, "conservative", "aggressive"}]

PrunerInit ==
    /\ args \in Arguments
    /\ config_data \in Configs
    /\ fs \in FileSystems
    /\ pending = {}
    /\ prune_pc = "call"
    /\ decisions = <<>>
    /\ answer = <<>>
    /\ evaluation_points = <<>>
    /\ pc = "idle"
    /\ i = 1
    /\ total_weight = 0
    /\ passed_weight = 0
    /\ category_totals = <<>>
    /\ category_passed = <<>>
    /\ details = <<>>
    /\ results_by_id = <<>>
    /\ calls = <<>>
    /\ result = Pending
    /\ NoCaller

\* The variables of evaluate_answer and of compare_answers.
scoring_vars == <<answer, evaluation_points, pc, i, total_weight, passed_weight,
                  category_totals, category_passed, details, results_by_id,
                  calls, result, answers, evaluation_points_list, all_scores,
                  evaluations, compare_pc, compare_result>>

\* Lines 106-145: the logger opens its log file; without a configuration or a
\* knowledge base the run exits; otherwise the knowledge base is listed.
PruneStart ==
    /\ prune_pc = "call"
    /\ fs' = [fs EXCEPT !.log = TRUE]
    /\ IF config_data = PyNone \/ ~fs.knowledge_base
       THEN /\ prune_pc' = "exit"
            /\ pending' = pending
       ELSE /\ prune_pc' = "scan"
            /\ pending' = fs.entries
    /\ UNCHANGED <<args, config_data, decisions>>
    /\ UNCHANGED scoring_vars

\* The PruneDecision of one repository (lines 163-176), with what was done
\* about it.
PruneDecision(repo_name, decision, final_score, policy_verdict, done) ==
    [repo_name |-> repo_name, decision |-> decision, final_score |-> final_score,
     dry_run |-> args.dry_run, policy_verdict |-> policy_verdict, done |-> done]

\* Lines 195-225: the action on a repository whose decision the governor
\* allowed: what is done, and the file system after it. "raised" stands for the
\* FileExistsError of mkdir on a file, which nothing catches, "lost" for its
\* FileNotFoundError, which line 227 catches.
ExecuteAction(repo_dir, decision) ==
    CASE decision = "ARCHIVE" ->
           CASE fs.archive = "file" -> [done |-> "raised", fs |-> fs]
             [] fs.archive = "no parent" -> [done |-> "lost", fs |-> fs]
             [] OTHER ->
                  LET made == [fs EXCEPT !.archive = "dir"]
                  IN  IF args.dry_run THEN [done |-> "would archive", fs |-> made]
                      ELSE [done |-> "archived",
                            fs |-> [made EXCEPT
                                       !.entries = @ \ {repo_dir},
                                       !.archived = @ \cup {repo_dir.name}]]
      [] decision = "DELETE" ->
           IF Strategy # "aggressive" THEN [done |-> "skipped", fs |-> fs]
           ELSE IF args.dry_run THEN [done |-> "would delete", fs |-> fs]
           ELSE [done |-> "deleted", fs |-> [fs EXCEPT !.entries = @ \ {repo_dir}]]
      [] decision = "REVIEW" -> [done |-> "flagged", fs |-> fs]
      [] OTHER -> [done |-> "kept", fs |-> fs]

\* Lines 147-228: one entry of the knowledge base; the order of iterdir is any.
\* A section that is no dict has no get: the AttributeError leaves run_pruning.
PruneRepo ==
    /\ prune_pc = "scan"
    /\ \E repo_dir \in pending :
        /\ pending' = pending \ {repo_dir}
        /\ IF ~repo_dir.is_dir
           THEN UNCHANGED <<fs, prune_pc, decisions>>
           ELSE IF ~IsDict(Weights) \/ ~IsDict(DecisionThresholds)
           THEN /\ prune_pc' = "raised"
                /\ UNCHANGED <<fs, decisions>>
           ELSE LET repo_record == RepoRecord(repo_dir.name)
                    score == CalculateCompositeScore(repo_record, repo_dir.age_days,
                                                     Weights)
                    decision == MakePruningDecision(score, DecisionThresholds)
                    policy_verdict ==
                        IF decision \in {"DELETE", "ARCHIVE"}
                        THEN GetEthicalVerdict(repo_record.name, decision)
                        ELSE "ALLOW"
                    action == ExecuteAction(repo_dir, decision)
                IN  IF policy_verdict = "DENY"
                    THEN /\ decisions' = Append(decisions,
                                PruneDecision(repo_record.name, decision, score,
                                              policy_verdict, "blocked"))
                         /\ UNCHANGED <<fs, prune_pc>>
                    ELSE /\ decisions' = Append(decisions,
                                PruneDecision(repo_record.name, decision, score,
                                              policy_verdict, action.done))
                         /\ fs' = action.fs
                         /\ prune_pc' = IF action.done = "raised" THEN "raised"
                                        ELSE prune_pc
    /\ UNCHANGED <<args, config_data>>
    /\ UNCHANGED scoring_vars

\* The loop is through: run_pruning returns.
PruneFinish ==
    /\ prune_pc = "scan"
    /\ pending = {}
    /\ prune_pc' = "returned"
    /\ UNCHANGED <<args, config_data, fs, pending, decisions>>
    /\ UNCHANGED scoring_vars

PrunerNext == PruneStart \/ PruneRepo \/ PruneFinish

PrunerSpec == PrunerInit /\ [][PrunerNext]_vars

\* ------------------------------------------------------------------------
\* Properties
\* ------------------------------------------------------------------------

\* The call is over: it returned a report or an exception left it.
Done == pc \in {"returned", "raised"}

\* The positions of the rubric, and the point at a position.
Positions == 1..Len(evaluation_points)
PointAt(n) == evaluation_points[n]

\* run_evaluation_point was called for the point at position n.
Ran(n) == \E k \in 1..Len(calls) : calls[k] = n

\* The sum of the weights of the points at the positions in S.
RECURSIVE SumWeights(_)
SumWeights(S) ==
    IF S = {} THEN 0
    ELSE LET n == CHOOSE x \in S : TRUE
         IN  Weight(PointAt(n)) + SumWeights(S \ {n})

\* The positions that count for the score, and those among them that passed:
\* the validator was called and answered ok (a skipped point did not pass).
Counted == {n \in Positions : ~IsInformational(PointAt(n))}
Passed == {n \in Counted : Ran(n) /\ RunEvaluationPoint(answer, PointAt(n)).ok}
CountedIn(cat) == {n \in Counted : Category(PointAt(n)) = cat}
PassedIn(cat) == {n \in Passed : Category(PointAt(n)) = cat}

\* A quotient lies in [0, 1].
InUnitInterval(q) == q.den > 0 /\ 0 <= q.num /\ q.num <= q.den

\* C1: every score evaluate_answer returns for a rubric of non-negative weights
\* lies in [0, 1].
C1_ScoreInUnitInterval ==
    (pc = "returned" /\ \A n \in Positions : Weight(PointAt(n)) >= 0)
        => InUnitInterval(result.score)

\* C1 witness: a report with a score strictly between 0 and 1 was returned for a
\* rubric that holds a point of weight 0.
C1_Witness ==
    /\ pc = "returned"
    /\ \E n \in Positions : Weight(PointAt(n)) = 0
    /\ result.score.num > 0
    /\ result.score.num < result.score.den

\* C2: for an empty rubric and for a rubric of informational points only, the
\* returned score is 1.0, whatever the answer and whether the points pass or fail.
C2_VacuousPass ==
    (pc = "returned" /\ \A n \in Positions : IsInformational(PointAt(n)))
        => result.score = One

\* C2 witness: a report was returned for a rubric of informational points one of
\* which failed.
C2_Witness ==
    /\ pc = "returned"
    /\ evaluation_points # <<>>
    /\ \A n \in Positions : IsInformational(PointAt(n))
    /\ \E n \in Positions : ~result.details[n].ok

\* C3: when the total weight is positive, the returned score is the weight of the
\* non-informational points that passed over the weight of all non-informational
\* points, a point skipped for its dependency counting as failed.
C3_WeightedScore ==
    (pc = "returned" /\ SumWeights(Counted) > 0)
        => result.score = Quotient(SumWeights(Passed), SumWeights(Counted))

\* C3 witness: a failing point of weight 2 and a passing point of weight 1 gave 1/3.
C3_Witness ==
    /\ pc = "returned"
    /\ Len(evaluation_points) = 2
    /\ \E n, m \in Positions :
        /\ Weight(PointAt(n)) = 2 /\ ~result.details[n].ok
        /\ Weight(PointAt(m)) = 1 /\ result.details[m].ok
    /\ result.score = [num |-> 1, den |-> 3]

\* C4: the call returns a categoryScores map with an entry for exactly the
\* categories of positive total weight, each the category's passed weight over its
\* total weight; a category of zero total weight is left out and no division by
\* zero leaves the call.
C4_CategoryScores ==
    /\ pc = "raised" => result.exc # "ZeroDivisionError"
    /\ pc = "returned" =>
        /\ DOMAIN result.category_scores =
              {Category(PointAt(n)) : n \in {m \in Counted : SumWeights(CountedIn(Category(PointAt(m)))) > 0}}
        /\ \A cat \in DOMAIN result.category_scores :
              result.category_scores[cat] =
                  Quotient(SumWeights(PassedIn(cat)), SumWeights(CountedIn(cat)))

\* The rubric without the point at position n.
Without(points, n) == SubSeq(points, 1, n - 1) \o SubSeq(points, n + 1, Len(points))

\* C5: whenever the rubric holds a point of weight 0 whose validator was called,
\* the call returns a report, its score is that of the rubric without the point,
\* and the point's detail entry carries the ok value of its validator.
C5_ZeroWeightInert ==
    Done => \A n \in Positions :
        (Weight(PointAt(n)) = 0 /\ Ran(n) /\ n <= Len(details)
            /\ (pc = "raised" => i > Len(evaluation_points)))
        => /\ pc = "returned"
           /\ ~EvaluateAnswer(answer, Without(evaluation_points, n)).raised
           /\ result.score = EvaluateAnswer(answer, Without(evaluation_points, n)).score
           /\ result.details[n].ok = RunEvaluationPoint(answer, PointAt(n)).ok

\* The rubric without its informational points.
NonInformational(points) == SelectSeq(points, LAMBDA q : ~IsInformational(q))

\* The id and the dependency of the point at position n.
IdOf(n) == Get(PointAt(n), "id", None)
DependsOn(n) == Get(PointAt(n), "depends_on", None)

\* No two points of the rubric carry the same id.
UniqueIds ==
    \A n, m \in Positions : (n # m /\ Truthy(IdOf(n))) => IdOf(n) # IdOf(m)

\* The returned score and categoryScores are those of the rubric with every
\* informational point removed, and every informational point has its entry in
\* details.
ReportIgnoresInformational ==
    LET other == EvaluateAnswer(answer, NonInformational(evaluation_points))
    IN  /\ ~other.raised
        /\ result.score = other.score
        /\ result.category_scores = other.category_scores
        /\ Len(result.details) = Len(evaluation_points)
        /\ \A n \in Positions :
              IsInformational(PointAt(n)) => result.details[n].informational

\* C6 as stated: for every rubric (of unique ids) and answer, score and
\* categoryScores are those of the rubric with every informational point removed,
\* and every informational point has its entry in details.
C6_InformationalIgnored ==
    (pc = "returned" /\ UniqueIds) => ReportIgnoresInformational

\* No point depends on an id that an informational point carries.
NoDependencyOnInformational ==
    \A n, m \in Positions :
        (IsInformational(PointAt(m)) /\ Truthy(IdOf(m))) => DependsOn(n) # IdOf(m)

\* C6 as amended: when no point's dependency names the id of an informational
\* point, the returned score and categoryScores are those of the rubric with every
\* informational point removed, and every informational point has its entry in
\* details.
C6_InformationalIgnoredUnlessDependedOn ==
    (pc = "returned" /\ NoDependencyOnInformational) => ReportIgnoresInformational

\* C6 witness: a report was returned for a rubric with a failing informational
\* point that nothing depends on and a point that counts.
C6_Witness ==
    /\ pc = "returned"
    /\ NoDependencyOnInformational
    /\ Counted # {}
    /\ \E n \in Positions : IsInformational(PointAt(n)) /\ ~result.details[n].ok
    /\ \E n \in Positions : IsInformational(PointAt(n)) /\ result.details[n].ok

\* The earlier positions that carry the id the point at n depends on, and the
\* last of them: the one whose outcome is on record when n is reached.
Carriers(n) == {m \in 1..(n - 1) : IdOf(m) = DependsOn(n)}
LastCarrier(n) == CHOOSE m \in Carriers(n) : \A k \in Carriers(n) : k <= m

\* C7: a point whose dependency names the id of an earlier point that came out
\* ok=false is not run: its entry has ok=false, duration 0 and the note that it was
\* skipped because that dependency failed, whatever its own type and params.
C7_SkippedWhenDependencyFailed ==
    \A n \in 1..Len(details) :
        (Truthy(DependsOn(n)) /\ Carriers(n) # {} /\ ~details[LastCarrier(n)].ok)
        => /\ ~Ran(n)
           /\ ~details[n].ok
           /\ details[n].duration_ms = ZeroDuration
           /\ details[n].note = "Skipped: Dependency '" \o DependsOn(n) \o "' failed."

\* C7 witness: a point with params of the wrong shape, and a point whose own check
\* would pass, were each skipped after the point "a" they depend on failed.
C7_Witness ==
    /\ \E n \in 1..Len(details) :
        /\ Truthy(DependsOn(n)) /\ Carriers(n) # {} /\ ~details[LastCarrier(n)].ok
        /\ Get(PointAt(n), "params", EmptyDict) = PyNone
    /\ \E n \in 1..Len(details) :
        /\ Truthy(DependsOn(n)) /\ Carriers(n) # {} /\ ~details[LastCarrier(n)].ok
        /\ ~RunEvaluationPoint(answer, PointAt(n)).raised
        /\ RunEvaluationPoint(answer, PointAt(n)).ok

\* C8: a point whose dependency names an id no earlier point carries is not run:
\* its entry has ok=false, duration 0 and the note that the dependency was not
\* found or has not run; and every point that was run with a dependency has an
\* earlier point carrying that id.
C8_SkippedWhenDependencyMissing ==
    /\ \A n \in 1..Len(details) :
        (Truthy(DependsOn(n)) /\ Carriers(n) = {})
        => /\ ~Ran(n)
           /\ ~details[n].ok
           /\ details[n].duration_ms = ZeroDuration
           /\ details[n].note =
                "Skipped: Dependency '" \o DependsOn(n)
                    \o "' not found or has not run yet."
    /\ \A n \in Positions : (Ran(n) /\ Truthy(DependsOn(n))) => Carriers(n) # {}

\* C8 witness: a forward reference and a reference of a point to itself were both
\* skipped in one call.
C8_Witness ==
    /\ \E n \in 1..Len(details) :
        /\ Truthy(DependsOn(n)) /\ Carriers(n) = {}
        /\ \E m \in Positions : m > n /\ IdOf(m) = DependsOn(n)
    /\ \E n \in 1..Len(details) :
        /\ Truthy(DependsOn(n)) /\ Carriers(n) = {}
        /\ IdOf(n) = DependsOn(n)

\* The nine registered kinds.
KnownKinds ==
    {"keyword", "regex", "length", "citation", "negation", "diff",
     "embedding", "json_schema", "code_test"}

\* C9: no fault leaves run_evaluation_point: every point of a known kind it was
\* called for gets its entry in details, and so the call ends with a report unless
\* the final computation fails.
C9_PointFaultsContained ==
    \A n \in Positions :
        (Ran(n) /\ Get(PointAt(n), "type", None) \in KnownKinds)
        => /\ n <= Len(details)
           /\ ~(pc = "raised" /\ i = n)

\* C10: a point of an unknown kind comes out ok=false with the note
\* "unknown evaluation type: <kind>".
C10_UnknownKindNote ==
    \A n \in 1..Len(details) :
        (Ran(n) /\ Get(PointAt(n), "type", None) \notin KnownKinds)
        => /\ ~details[n].ok
           /\ details[n].note = "unknown evaluation type: " \o Get(PointAt(n), "type", None)

\* The three placeholder kinds and the names their notes begin with.
PlaceholderKinds == {"embedding", "json_schema", "code_test"}
PlaceholderNames == {"Embedding", "JSON schema", "Code test"}

\* The note says "not yet implemented".
SaysNotYetImplemented(note) ==
    \E validator \in PlaceholderNames :
        note = validator \o " validator not yet implemented."

JsonStart == {"{", "[", "\"", "-", "t", "f", "n"} \cup Digits
NotJson(text) ==
    \A n \in 1..Len(text) :
        (\A k \in 1..(n - 1) : text[k] \in Whitespace) => text[n] \notin JsonStart

\* The notes of a json_schema point spelled out: the one the placeholder
\* branch writes, and the phrase "invalid json".
JsonSchemaNote ==
    <<"J","S","O","N"," ","s","c","h","e","m","a"," ","v","a","l","i","d","a","t","o","r",
      " ","n","o","t"," ","y","e","t"," ","i","m","p","l","e","m","e","n","t","e","d",".">>
InvalidJson == <<"i","n","v","a","l","i","d"," ","j","s","o","n">>

\* The note, spelled out, contains "invalid json".
SaysInvalidJson(note) ==
    \E text \in {JsonSchemaNote, InvalidJson} :
        Join(text) = note /\ Contains(InvalidJson, text)

\* C12: a json_schema point whose validator was called on an answer that is not
\* valid JSON comes out ok=false with a note containing "invalid json".
C12_InvalidJsonNote ==
    \A n \in 1..Len(details) :
        (Ran(n) /\ Get(PointAt(n), "type", None) = "json_schema" /\ NotJson(answer))
        => /\ ~details[n].ok
           /\ SaysInvalidJson(details[n].note)

\* compare_answers returned, and the reports it returned.
CompareDone == compare_pc = "returned"
Reports == compare_result.all_scores

\* The winner index names a report of the highest score, and no report before
\* it has that score.
WinnerIsFirstMaximum ==
    LET w == compare_result.winner_index + 1
    IN  /\ w \in 1..Len(Reports)
        /\ \A m \in 1..Len(Reports) : ~Less(Reports[w].score, Reports[m].score)
        /\ \A m \in 1..(w - 1) : Reports[m].score # Reports[w].score

\* C13: for a non-empty list of answers the returned winner index is the first
\* position of the highest score among the reports.
C13_WinnerIsFirstMaximum ==
    (CompareDone /\ answers # <<>>) => WinnerIsFirstMaximum

\* C13, amended: the same when there is also at least one rubric, so that zip
\* yields at least one pair and there is a report to win.
C13_WinnerIsFirstMaximumOfReports ==
    (CompareDone /\ answers # <<>> /\ evaluation_points_list # <<>>)
        => WinnerIsFirstMaximum

\* C13 witness: three reports were returned, the first scores lower than the
\* second, the third ties with the second, and the second wins.
C13_Witness ==
    /\ CompareDone
    /\ Len(Reports) = 3
    /\ Less(Reports[1].score, Reports[2].score)
    /\ Reports[3].score = Reports[2].score
    /\ compare_result.winner_index = 1

\* C14: for an empty list of answers compare_answers returns the winner index
\* -1 with an empty list of reports, and neither evaluate_answer nor a
\* validator was called.
C14_EmptyInputSentinel ==
    (CompareDone /\ answers = <<>>)
        => /\ compare_result.winner_index = -1
           /\ Reports = <<>>
           /\ evaluations = <<>>
           /\ calls = <<>>
           /\ pc = "idle"

\* C14 witness: compare_answers returned for no answers and three rubrics.
C14_Witness ==
    /\ CompareDone
    /\ answers = <<>>
    /\ Len(evaluation_points_list) = 3

\* C15: given as many rubrics as answers, compare_answers returns one report per
\* answer, and report k is what evaluate_answer(answers[k],
\* evaluation_points_list[k]) returns when called on its own.
C15_ReportsIndependent ==
    (CompareDone /\ Len(answers) = Len(evaluation_points_list))
        => /\ Len(Reports) = Len(answers)
           /\ \A k \in 1..Len(Reports) :
                  Reports[k] = EvaluateAnswer(answers[k], evaluation_points_list[k])

\* C15 witness: one rubric was used for three answers; in it the first point
\* depends on the id of the second. The first answer passed the point with the
\* id, and for the second answer the dependent point was skipped all the same,
\* though this answer would have passed it.
C15_Witness ==
    /\ CompareDone
    /\ Len(Reports) = 3
    /\ \A k \in 1..3 : evaluation_points_list[k] = evaluation_points_list[1]
    /\ Len(evaluation_points_list[1]) = 2
    /\ Get(evaluation_points_list[1][1], "depends_on", None) = "a"
    /\ Get(evaluation_points_list[1][2], "id", None) = "a"
    /\ Reports[1].details[2].ok
    /\ answers[2] # answers[1]
    /\ Reports[2].details[1].duration_ms = ZeroDuration
    /\ RunEvaluationPoint(answers[2], evaluation_points_list[2][1]).ok

\* The kinds whose validators compute from the answer and params alone.
DeterministicKinds == {"keyword", "regex", "length", "citation", "negation", "diff"}

\* Calls j and k of evaluate_answer had the same answer and the same rubric, of
\* points of the deterministic kinds only.
SameCall(j, k) ==
    /\ answers[j] = answers[k]
    /\ evaluation_points_list[j] = evaluation_points_list[k]
    /\ \A n \in DOMAIN evaluation_points_list[j] :
           Get(evaluation_points_list[j][n], "type", None) \in DeterministicKinds

\* The ok values of a report, point by point.
OkValues(report) == [n \in DOMAIN report.details |-> report.details[n].ok]

\* C16: two calls of evaluate_answer with the same answer and the same rubric of
\* deterministic kinds return the same score and the same ok value for every
\* point, whatever was evaluated between them.
C16_RerunSameResult ==
    \A j \in 1..Len(all_scores) : \A k \in 1..Len(all_scores) :
        SameCall(j, k)
        => /\ all_scores[j].score = all_scores[k].score
           /\ OkValues(all_scores[j]) = OkValues(all_scores[k])

\* C16 witness: the rubric with a point of each of the six kinds was evaluated
\* for the same answer first and third, with another answer in between, and
\* some points passed and some failed.
C16_Witness ==
    /\ Len(all_scores) = 3
    /\ SameCall(1, 3)
    /\ answers[2] # answers[1]
    /\ {Get(evaluation_points_list[1][n], "type", None) :
           n \in DOMAIN evaluation_points_list[1]} = DeterministicKinds
    /\ all_scores[2].score # all_scores[1].score
    /\ \E n \in DOMAIN all_scores[3].details : all_scores[3].details[n].ok
    /\ \E n \in DOMAIN all_scores[3].details : ~all_scores[3].details[n].ok

\* The keys of an entry of details.
DetailKeys ==
    {"point", "id", "category", "informational", "ok", "note", "evidence", "duration_ms"}

\* Entry n of the returned details belongs to the point at position n: it has
\* the point's text, id, category and informational flag, and the outcome of
\* the validator if it was called.
EntryOfPoint(n) ==
    LET entry == result.details[n]
        point == PointAt(n)
    IN  /\ DOMAIN entry = DetailKeys
        /\ ("text" \in DOMAIN point => entry.point = point.text)
        /\ entry.id = Get(point, "id", None)
        /\ entry.category = (IF "category" \in DOMAIN point THEN point.category
                             ELSE "General")
        /\ entry.informational = ("informational" \in DOMAIN point /\ point.informational)
        /\ IF Ran(n)
           THEN LET out == RunEvaluationPoint(answer, point)
                IN  /\ entry.ok = out.ok
                    /\ entry.note = out.note
                    /\ entry.evidence = out.evidence
                    /\ entry.duration_ms = Measured
           ELSE /\ ~entry.ok
                /\ entry.duration_ms = ZeroDuration

\* C17: the returned details have one entry per point of the rubric, in the
\* order of the rubric, each with the point's text, id, category ("General"
\* when unset) and informational flag (false when unset) and with ok, note,
\* evidence and duration.
C17_OneEntryPerPoint ==
    pc = "returned"
        => /\ Len(result.details) = Len(evaluation_points)
           /\ \A n \in Positions : EntryOfPoint(n)

\* C17 witness: a report was returned for three different points, among them an
\* informational one, one skipped for its dependency, and one with a text and
\* no category.
C17_Witness ==
    /\ pc = "returned"
    /\ Len(evaluation_points) = 3
    /\ \A n \in Positions : \A m \in Positions : n # m => PointAt(n) # PointAt(m)
    /\ \E n \in Positions : IsInformational(PointAt(n))
    /\ \E n \in Positions : ~Ran(n)
    /\ \E n \in Positions :
           "text" \in DOMAIN PointAt(n) /\ "category" \notin DOMAIN PointAt(n)

\* The point at position n is of the given kind, its validator was called, and
\* its params are well formed: a dict whose keywords are a list of str and whose
\* min_count, if given, is an int.
KeywordCall(n, kind) ==
    LET p == Get(PointAt(n), "params", EmptyDict)
    IN  /\ Ran(n)
        /\ n <= Len(details)
        /\ Get(PointAt(n), "type", None) = kind
        /\ p.ty = "dict"
        /\ Get(p.val, "keywords", PyList(<<>>)).ty = "list"
        /\ \A k \in DOMAIN Get(p.val, "keywords", PyList(<<>>)).val :
               Get(p.val, "keywords", PyList(<<>>)).val[k].ty = "str"
        /\ Get(p.val, "min_count", PyInt(1)).ty = "int"

\* params.keywords of the point at position n, and its minCount (1 when unset).
KeywordsAt(n) ==
    Get(Get(PointAt(n), "params", EmptyDict).val, "keywords", PyList(<<>>)).val
MinCountAt(n) ==
    IF "min_count" \in DOMAIN Get(PointAt(n), "params", EmptyDict).val
    THEN PointAt(n).params.val.min_count.val ELSE 1

\* Two characters are the same letter, case aside.
SameLetter(c, d) == LowerChar(c) = LowerChar(d)

\* The keyword occurs in the text at offset o, compared case-insensitively.
OccursAt(keyword, text, o) ==
    /\ o + Len(keyword) <= Len(text)
    /\ \A k \in 1..Len(keyword) : SameLetter(keyword[k], text[o + k])

\* The positions in the keyword list of the keywords that occur in the answer.
MatchedAt(n) ==
    {k \in DOMAIN KeywordsAt(n) :
        \E o \in 0..Len(answer) : OccursAt(KeywordsAt(n)[k].val, answer, o)}

\* The keywords at the positions S, in the order of the list.
RECURSIVE Pick(_, _, _)
Pick(keywords, S, k) ==
    IF k > Len(keywords) THEN <<>>
    ELSE (IF k \in S THEN <<keywords[k]>> ELSE <<>>) \o Pick(keywords, S, k + 1)

WordChars ==
    {UpperLetters[k] : k \in DOMAIN UpperLetters}
    \cup {LowerLetters[k] : k \in DOMAIN LowerLetters}
    \cup Digits \cup {"_"}

\* The keyword occurs in the text at offset o as a word of its own: no word
\* character stands right before it or right after it.
OccursAsWordAt(keyword, text, o) ==
    /\ OccursAt(keyword, text, o)
    /\ o = 0 \/ text[o] \notin WordChars
    /\ o + Len(keyword) = Len(text) \/ text[o + Len(keyword) + 1] \notin WordChars

\* The positions in the keyword list of the keywords that occur in the answer
\* as words of their own.
WordMatchedAt(n) ==
    {k \in DOMAIN KeywordsAt(n) :
        \E o \in 0..Len(answer) : OccursAsWordAt(KeywordsAt(n)[k].val, answer, o)}

\* C19: keyword matching is a word-boundary match in both checks: a keyword
\* point passes if and only if at least minCount keywords occur as words of
\* their own, and a negation point passes if and only if none does.
C19_WordBoundaryMatch ==
    \A n \in Positions :
        /\ KeywordCall(n, "keyword")
               => (details[n].ok <=> Cardinality(WordMatchedAt(n)) >= MinCountAt(n))
        /\ KeywordCall(n, "negation")
               => (details[n].ok <=> WordMatchedAt(n) = {})

\* How often the keyword occurs in the answer, case aside.
Occurrences(keyword) ==
    Cardinality({o \in 0..Len(answer) : OccursAt(keyword, answer, o)})

\* The sum of the occurrences of the keywords from position k of the list on.
RECURSIVE OccurrencesFrom(_, _)
OccurrencesFrom(keywords, k) ==
    IF k > Len(keywords) THEN 0
    ELSE Occurrences(keywords[k].val) + OccurrencesFrom(keywords, k + 1)

\* C20: the keyword check counts every occurrence of a keyword: the point
\* passes if and only if the keywords occur at least min_count times in all,
\* and the note reports that count ("Found 2/2" for one keyword found twice).
C20_CountsOccurrences ==
    \A n \in Positions :
        KeywordCall(n, "keyword")
        => LET count == OccurrencesFrom(KeywordsAt(n), 1)
           IN  /\ details[n].ok <=> (count >= MinCountAt(n))
               /\ details[n].note =
                      "Found " \o ToString(count) \o "/" \o ToString(MinCountAt(n))
                          \o " required keywords."

\* C21: a negation point passes if and only if none of its keywords occurs in
\* the answer, case aside (so it passes for an empty or absent list); when it
\* fails, the evidence is the list of the keywords that occur, in list order.
C21_NegationCheck ==
    \A n \in Positions :
        KeywordCall(n, "negation")
        => /\ details[n].ok <=> (MatchedAt(n) = {})
           /\ ~details[n].ok
                  => details[n].evidence = PyList(Pick(KeywordsAt(n), MatchedAt(n), 1))

\* C21 witness: in one rubric a negation point with no keyword list passed and
\* one with two forbidden keywords failed on the one of them that occurs.
C21_Witness ==
    /\ \E n \in Positions :
           /\ KeywordCall(n, "negation")
           /\ "params" \notin DOMAIN PointAt(n)
           /\ details[n].ok
    /\ \E n \in Positions :
           /\ KeywordCall(n, "negation")
           /\ Len(KeywordsAt(n)) = 2
           /\ Cardinality(MatchedAt(n)) = 1
           /\ ~details[n].ok

\* The text is in the language of the atoms from atom k on, the dot matching
\* every character: an atom without repeat takes one character that fits it, a
\* starred atom any number of them, a plussed atom at least one.
RECURSIVE Derives(_, _, _)
Derives(atoms, k, text) ==
    IF k > Len(atoms) THEN text = <<>>
    ELSE LET least == IF atoms[k].rep = "*" THEN 0 ELSE 1
             most == IF atoms[k].rep = "" THEN 1 ELSE Len(text)
         IN  \E m \in least..most :
                 /\ m <= Len(text)
                 /\ \A j \in 1..m : AtomFits(atoms[k], text[j], TRUE)
                 /\ Derives(atoms, k + 1, SubSeq(text, m + 1, Len(text)))

\* The pattern matches somewhere in the text.
MatchesSomewhere(pattern, text) ==
    \E from \in 0..Len(text) : \E to \in from..Len(text) :
        Derives(Atoms(pattern), 1, SubSeq(text, from + 1, to))

\* The point at position n is a regex point whose validator was called and
\* returned, with a dict (or nothing) as params.
RegexCall(n) ==
    /\ Ran(n)
    /\ n <= Len(details)
    /\ Get(PointAt(n), "type", None) = "regex"
    /\ Get(PointAt(n), "params", EmptyDict).ty = "dict"

\* params.pattern of the point at position n; None when it is not there.
PatternAt(n) == Get(Get(PointAt(n), "params", EmptyDict).val, "pattern", PyNone)

\* The outcome that says the pattern is missing.
PatternMissingOutcome(n) ==
    /\ ~details[n].ok
    /\ details[n].note = "Regex pattern is missing in params."
    /\ details[n].evidence = PyNone

\* C22: a regex point passes if and only if its pattern matches somewhere in
\* the answer, the dot matching a line break too; with no pattern it fails with
\* the note that the pattern is missing.
C22_RegexMatch ==
    \A n \in Positions :
        RegexCall(n)
        => /\ PatternAt(n).ty = "str"
                  => (details[n].ok <=> MatchesSomewhere(PatternAt(n).val, answer))
           /\ PatternAt(n).ty = "NoneType" => PatternMissingOutcome(n)

\* C22, amended: the same for a pattern that is not the empty string; the empty
\* pattern counts as missing like an absent one.
C22_RegexMatchNonEmpty ==
    \A n \in Positions :
        RegexCall(n)
        => /\ (PatternAt(n).ty = "str" /\ PatternAt(n).val # <<>>)
                  => (details[n].ok <=> MatchesSomewhere(PatternAt(n).val, answer))
           /\ (PatternAt(n).ty = "NoneType" \/ PatternAt(n) = PyStr(<<>>))
                  => PatternMissingOutcome(n)

\* C22 witness: a pattern whose dot has to match the line break of the answer
\* was searched for, and the point passed.
C22_Witness ==
    \E n \in Positions :
        /\ RegexCall(n)
        /\ PatternAt(n) = PyStr(<<"b", ".", "c">>)
        /\ \E k \in 1..Len(answer) : answer[k] = "\n"
        /\ details[n].ok

\* The number of whitespace-separated tokens of a text, read from left to right:
\* a token begins at each character that is not whitespace and does not follow
\* a character of a token.
RECURSIVE CountTokens(_, _)
CountTokens(text, inside) ==
    IF text = <<>> THEN 0
    ELSE IF text[1] \in Whitespace THEN CountTokens(Tail(text), FALSE)
    ELSE (IF inside THEN 0 ELSE 1) + CountTokens(Tail(text), TRUE)

\* The point at position n is a length point whose validator was called, with a
\* dict (or nothing) as params whose bounds are ints where given.
LengthCall(n) ==
    LET p == Get(PointAt(n), "params", EmptyDict)
    IN  /\ Ran(n)
        /\ n <= Len(details)
        /\ Get(PointAt(n), "type", None) = "length"
        /\ p.ty = "dict"
        /\ Get(p.val, "min", PyNone).ty \in {"NoneType", "int"}
        /\ Get(p.val, "max", PyNone).ty \in {"NoneType", "int"}

\* A bound of the point at position n; None when it is not given.
BoundAt(n, key) == Get(Get(PointAt(n), "params", EmptyDict).val, key, PyNone)

\* C23: a length point passes if and only if the number of tokens of the answer
\* is at least min, when min is given, and at most max, when max is given; the
\* evidence is the number of tokens.
C23_LengthBounds ==
    \A n \in Positions :
        LengthCall(n)
        => LET tokens == CountTokens(answer, FALSE)
           IN  /\ details[n].ok <=>
                      /\ BoundAt(n, "min").ty = "int" => BoundAt(n, "min").val <= tokens
                      /\ BoundAt(n, "max").ty = "int" => tokens <= BoundAt(n, "max").val
               /\ details[n].evidence = PyInt(tokens)

\* C23 witness: a length point with both bounds passed on an answer whose two
\* tokens a line break separates.
C23_Witness ==
    \E n \in Positions :
        /\ LengthCall(n)
        /\ BoundAt(n, "min") = PyInt(2)
        /\ BoundAt(n, "max") = PyInt(4)
        /\ \A k \in 1..Len(answer) : answer[k] # " "
        /\ details[n].ok
        /\ details[n].evidence = PyInt(2)

\* The text is in the language of atoms k.. when the dot does not match a line
\* break (no flag given).
RECURSIVE DerivesInLine(_, _, _)
DerivesInLine(atoms, k, text) ==
    IF k > Len(atoms) THEN text = <<>>
    ELSE LET least == IF atoms[k].rep = "*" THEN 0 ELSE 1
             most == IF atoms[k].rep = "" THEN 1 ELSE Len(text)
         IN  \E m \in least..most :
                 /\ m <= Len(text)
                 /\ \A j \in 1..m : AtomFits(atoms[k], text[j], FALSE)
                 /\ DerivesInLine(atoms, k + 1, SubSeq(text, m + 1, Len(text)))

\* The occurrences of the pattern in the text from offset pos on, from left to
\* right and without overlap: each is the longest stretch in the pattern's
\* language at the first offset that begins one; after an empty occurrence the
\* scan moves one character on.
RECURSIVE OccurrencesOf(_, _, _)
OccurrencesOf(pattern, text, pos) ==
    LET Stretch(from, to) ==
            DerivesInLine(Atoms(pattern), 1, SubSeq(text, from + 1, to))
        starts == {from \in pos..Len(text) :
                       \E to \in from..Len(text) : Stretch(from, to)}
    IN  IF starts = {} THEN <<>>
        ELSE LET from == CHOOSE f \in starts : \A g \in starts : f <= g
                 ends == {to \in from..Len(text) : Stretch(from, to)}
                 to == CHOOSE e \in ends : \A g \in ends : g <= e
             IN  <<SubSeq(text, from + 1, to)>>
                     \o OccurrencesOf(pattern, text, IF to = from THEN from + 1 ELSE to)

\* The point at position n is a citation point whose validator was called and
\* returned, with a dict (or nothing) as params.
CitationCall(n) ==
    /\ Ran(n)
    /\ n <= Len(details)
    /\ Get(PointAt(n), "type", None) = "citation"
    /\ Get(PointAt(n), "params", EmptyDict).ty = "dict"

\* The citation pattern of the point at position n: params.pattern, or a
\* bracketed number when unset.
CitationPatternAt(n) ==
    Get(Get(PointAt(n), "params", EmptyDict).val, "pattern",
        PyStr(<<"\\", "[", "\\", "d", "+", "\\", "]">>)).val

\* C24: a citation point passes if and only if the citation pattern occurs in
\* the answer at least min_count times (1 when unset); the evidence lists the
\* occurrences in the order they stand in the answer (and is None when there is
\* none).
C24_CitationCount ==
    \A n \in Positions :
        CitationCall(n)
        => LET markers == OccurrencesOf(CitationPatternAt(n), answer, 0)
           IN  /\ details[n].ok <=> Len(markers) >= MinCountAt(n)
               /\ details[n].evidence =
                      IF markers = <<>> THEN PyNone
                      ELSE PyList([k \in 1..Len(markers) |-> PyStr(markers[k])])

\* C24 witness: a citation point asking for two markers passed on an answer
\* that cites [1] and [2], and the evidence lists both in that order.
C24_Witness ==
    \E n \in Positions :
        /\ CitationCall(n)
        /\ MinCountAt(n) = 2
        /\ details[n].ok
        /\ details[n].evidence = PyList(<<PyStr(<<"[", "1", "]">>),
                                          PyStr(<<"[", "2", "]">>)>>)

\* The point at position n is a diff point whose validator was called and
\* returned, with a dict (or nothing) as params.
DiffCall(n) ==
    /\ Ran(n)
    /\ n <= Len(details)
    /\ Get(PointAt(n), "type", None) = "diff"
    /\ Get(PointAt(n), "params", EmptyDict).ty = "dict"

\* params.golden_answer of the point at position n; None when it is not there.
GoldenAt(n) == Get(Get(PointAt(n), "params", EmptyDict).val, "golden_answer", PyNone)

\* params.threshold of the point at position n in hundredths; 0.9 when unset.
ThresholdAt(n) ==
    LET threshold == Get(Get(PointAt(n), "params", EmptyDict).val, "threshold",
                         PyFloat(90))
    IN  IF threshold.ty = "int" THEN 100 * threshold.val ELSE threshold.val

\* The similarity ratio of two texts is at least h hundredths: twice the number
\* of matched characters over the sum of the lengths, and 1 for two empty texts.
RatioAtLeast(a, b, h) ==
    IF Len(a) + Len(b) = 0 THEN 100 >= h
    ELSE 200 * Matches(MatchingBlocks(a, b, 0, Len(a), 0, Len(b)))
             >= h * (Len(a) + Len(b))

\* The outcome that says the golden answer is missing; it carries no ratio.
GoldenMissingOutcome(n) ==
    /\ ~details[n].ok
    /\ details[n].note = "Golden answer is missing in params."
    /\ details[n].evidence = PyNone

\* What C25 says of the diff point at position n whose golden answer counts as
\* given when `given` holds.
DiffOutcome(n, given) ==
    /\ given => /\ details[n].ok <=> RatioAtLeast(answer, GoldenAt(n).val, ThresholdAt(n))
                /\ ThresholdAt(n) = 100 => (details[n].ok <=> answer = GoldenAt(n).val)
                /\ ThresholdAt(n) = 0 => details[n].ok
    /\ ~given => GoldenMissingOutcome(n)

\* C25: a diff point with a golden answer passes if and only if the similarity
\* ratio of the answer and the golden answer is at least the threshold (0.9
\* when unset); with no golden answer it fails with the note that the golden
\* answer is missing.
C25_DiffThreshold ==
    \A n \in Positions : DiffCall(n) => DiffOutcome(n, GoldenAt(n).ty = "str")

\* C25, amended: the same for a golden answer that is not the empty text; the
\* empty golden answer counts as missing like an absent one.
C25_DiffThresholdNonEmpty ==
    \A n \in Positions :
        DiffCall(n) => DiffOutcome(n, GoldenAt(n).ty = "str" /\ GoldenAt(n).val # <<>>)

\* C25 witness: a diff point with threshold 0.8 passed on an answer that
\* differs from the golden answer, the ratio being exactly 0.8.
C25_Witness ==
    \E n \in Positions :
        /\ DiffCall(n)
        /\ ThresholdAt(n) = 80
        /\ GoldenAt(n).ty = "str"
        /\ GoldenAt(n).val # <<>>
        /\ answer # GoldenAt(n).val
        /\ ~RatioAtLeast(answer, GoldenAt(n).val, 81)
        /\ details[n].ok

\* What the diff generator yields for the golden answer and the answer, put
\* together.
WholeDiff(golden_answer) ==
    Join(UnifiedDiff(SplitLines(golden_answer), SplitLines(answer)))

\* The diff point at position n failed on a golden answer whose lines differ
\* from the lines of the answer.
DiffFailed(n) ==
    /\ DiffCall(n)
    /\ GoldenAt(n).ty = "str"
    /\ GoldenAt(n).val # <<>>
    /\ ~details[n].ok
    /\ SplitLines(GoldenAt(n).val) # SplitLines(answer)

\* C27: when a diff point fails and the golden answer and the answer differ as
\* lines, the evidence is the whole unified diff the generator yields, its
\* first header line included.
C27_WholeDiffAsEvidence ==
    \A n \in Positions :
        DiffFailed(n) => details[n].evidence = PyStr(WholeDiff(GoldenAt(n).val))

\* What the evidence of a failed diff point is instead: the diff without its
\* first line, the header that names the golden answer.
C27_FirstHeaderLineLost ==
    \A n \in Positions :
        DiffFailed(n)
        => "--- golden_answer\n" \o details[n].evidence.val = WholeDiff(GoldenAt(n).val)

\* The loop has dealt with the point at position n: it is past it, or the
\* validator raised on it.
Reached(n) == n < i \/ Ran(n)

\* The dependency of the point at position n is unset, or names the id of an
\* earlier point whose outcome on record is ok=true.
Eligible(n) ==
    \/ ~Truthy(DependsOn(n))
    \/ Carriers(n) # {} /\ details[LastCarrier(n)].ok

\* C26: within one call the validator is called at most once per point and in
\* rubric order; it is called for a point exactly when the point's dependency
\* is unset or names the id of an earlier point on record as ok=true; and the
\* outcome of such a point is what the validator returned.
C26_CalledOnceInOrderWhenEligible ==
    /\ \A j, k \in 1..Len(calls) : j < k => calls[j] < calls[k]
    /\ \A n \in Positions :
        /\ Ran(n) => n <= i
        /\ Reached(n) => (Ran(n) <=> Eligible(n))
        /\ (Ran(n) /\ n <= Len(details))
               => LET out == RunEvaluationPoint(answer, PointAt(n))
                  IN  /\ details[n].ok = out.ok
                      /\ details[n].note = out.note
                      /\ details[n].evidence = out.evidence
                      /\ details[n].duration_ms = Measured

\* C26 witness: a report was returned for a rubric of three points with
\* distinct ids of which the
\* first ran without a dependency and passed, the second ran because it depends
\* on the first, and the third was not run.
C26_Witness ==
    /\ pc = "returned"
    /\ Len(evaluation_points) = 3
    /\ UniqueIds
    /\ calls = <<1, 2>>
    /\ ~Truthy(DependsOn(1))
    /\ Truthy(DependsOn(2))
    /\ Carriers(2) = {1}
    /\ details[1].ok
    /\ Truthy(DependsOn(3))

\* The point at position n depends on the point at position m, directly or
\* through further points.
RECURSIVE DependsThrough(_, _)
DependsThrough(n, m) ==
    /\ Truthy(DependsOn(n))
    /\ Carriers(n) # {}
    /\ LastCarrier(n) = m \/ DependsThrough(LastCarrier(n), m)

\* The point at position m was skipped because of its dependency.
Skipped(m) == m <= Len(details) /\ Truthy(DependsOn(m)) /\ ~Ran(m)

\* C28: a point skipped because of its dependency is on record under its id as
\* failed, and every later point that depends on it, directly or through
\* further points, is skipped too: ok=false, duration 0, validator not called.
C28_SkipsPropagate ==
    \A m \in Positions :
        Skipped(m)
        => /\ (Truthy(IdOf(m)) /\ \A k \in (m + 1)..Len(details) : IdOf(k) # IdOf(m))
                  => /\ IdOf(m) \in DOMAIN results_by_id
                     /\ ~results_by_id[IdOf(m)]
           /\ \A n \in (m + 1)..Len(details) :
                  DependsThrough(n, m)
                  => /\ ~Ran(n)
                     /\ ~details[n].ok
                     /\ details[n].duration_ms = ZeroDuration

\* C28 witness: in a rubric with distinct ids the first point was skipped, the
\* second depends on the first
\* and the third on the second, and the third, whose own check would pass, was
\* skipped.
C28_Witness ==
    /\ Len(details) = 3
    /\ UniqueIds
    /\ Skipped(1)
    /\ DependsThrough(2, 1)
    /\ DependsThrough(3, 2)
    /\ ~RunEvaluationPoint(answer, PointAt(3)).raised
    /\ RunEvaluationPoint(answer, PointAt(3)).ok
    /\ ~details[3].ok

C29_DryRunKeepsRepositories ==
    [][args.dry_run => (fs'.entries = fs.entries /\ fs'.archived = fs.archived)]_vars

\* The name holds the word at some place.
HasWord(name, word) ==
    \E k \in 1..Len(name) :
        /\ k + Len(word) - 1 <= Len(name)
        /\ \A j \in 1..Len(word) : name[k + j - 1] = word[j]

\* A name the governor protects: it holds "critical" or "protected".
ProtectedName(name) ==
    \/ HasWord(name, <<"c", "r", "i", "t", "i", "c", "a", "l">>)
    \/ HasWord(name, <<"p", "r", "o", "t", "e", "c", "t", "e", "d">>)

\* C30: a repository whose name holds "critical" or "protected" is never
\* archived or deleted: a DELETE or ARCHIVE decision on it gets the verdict DENY
\* and nothing is done, the entry stays in the knowledge base and out of the
\* archive; a REVIEW or KEEP decision is always allowed.
C30_ProtectedNeverPruned ==
    \A k \in 1..Len(decisions) :
        LET d == decisions[k]
        IN  /\ (ProtectedName(d.repo_name) /\ d.decision \in {"DELETE", "ARCHIVE"})
                   => /\ d.policy_verdict = "DENY"
                      /\ d.done = "blocked"
            /\ ProtectedName(d.repo_name)
                   => /\ \E e \in fs.entries : e.name = d.repo_name
                      /\ d.repo_name \notin fs.archived
            /\ d.decision \in {"REVIEW", "KEEP"} => d.policy_verdict = "ALLOW"

\* C30 witness: in a run that is no dry run, under the aggressive strategy, the
\* deletion of one protected repository and the archiving of another were
\* denied.
C30_Witness ==
    /\ ~args.dry_run
    /\ Strategy = "aggressive"
    /\ \E k \in 1..Len(decisions) :
           /\ ProtectedName(decisions[k].repo_name)
           /\ decisions[k].decision = "DELETE"
           /\ decisions[k].done = "blocked"
    /\ \E k \in 1..Len(decisions) :
           /\ ProtectedName(decisions[k].repo_name)
           /\ decisions[k].decision = "ARCHIVE"
           /\ decisions[k].done = "blocked"
====
